---- MODULE Spec2Model ----
(***************************************************************************)
(* Opinion-dynamics feedback engine (src/opinion_dynamics).                *)
(*                                                                         *)
(* Python floats are modelled in fixed point: the integer n stands for     *)
(* n/1000 (position 1.0 is 1000, the conversion threshold -0.3 is -300).   *)
(* Products and quotients truncate toward zero after every operation.      *)
(* Calls of random.* are nondeterministic choices from small sets.         *)
(***************************************************************************)
EXTENDS Integers, Sequences, FiniteSets, TLC

VARIABLES
    agents,                 \* SimulationEngine.agents: sequence of Agent records
    all_posts,              \* SimulationEngine.all_posts: sequence of Post records
    tracker,                \* SimulationTracker: conversion_events, round_summaries
    round_num,              \* the round being run (0 before the first)
    pc,                     \* position inside run_round / the harness
    speakers,               \* run_round local: the selected speakers (agent ids)
    round_posts,            \* run_round local: the posts generated in this round
    visible_posts,          \* run_round local: the sampled feed
    round_conversions,      \* run_round local: ConversionEvents of this round
    llm_calls,              \* number of text-generation calls issued so far
    last_call,              \* the last operation called directly and its inputs (harness)
    ncalls,                 \* number of operation calls made (harness)
    sd,                     \* OpinionDynamicsSD: parameters, start and current state vector
    amplifier               \* AmplificationAlgorithm: the three configured weights

vars == <<agents, all_posts, tracker, round_num, pc, speakers, round_posts,
          visible_posts, round_conversions, llm_calls, last_call, ncalls, sd,
          amplifier>>

----------------------------------------------------------------------------
(* Fixed-point arithmetic *)

Abs(x) == IF x < 0 THEN -x ELSE x

Min(a, b) == IF a <= b THEN a ELSE b

Max(a, b) == IF a >= b THEN a ELSE b

\* a / b truncated toward zero (b > 0)
TDiv(a, b) == IF a >= 0 THEN a \div b ELSE -((-a) \div b)

\* float product a * b
Mul(a, b) == TDiv(a * b, 1000)

\* float quotient a / b
Quot(a, b) == TDiv(a * 1000, b)

\* math.exp(-y) for y >= 0: e^-k from a table for the integer part k, a
\* Taylor polynomial of degree 6 for the fractional part
ExpNeg(y) ==
    LET k  == y \div 1000
        f  == y % 1000
        ek == IF k >= 7 THEN 0
              ELSE <<1000, 368, 135, 50, 18, 7, 2>>[k + 1]
        t2 == Mul(f, f) \div 2
        t3 == Mul(t2, f) \div 3
        t4 == Mul(t3, f) \div 4
        t5 == Mul(t4, f) \div 5
        t6 == Mul(t5, f) \div 6
        ef == 1000 - f + t2 - t3 + t4 - t5 + t6
    IN  Mul(ek, ef)

----------------------------------------------------------------------------
(* models.py: personalities *)

Personalities == {"analytical", "reactive", "conformist", "disengaged", "balanced"}

\* PersonalityTraits() defaults
DefaultTraits ==
    [emotional_susceptibility |-> 1000, analytical_weight |-> 1000,
     social_proof_sensitivity |-> 1000, change_rate |-> 1000,
     reversal_resistance |-> 1000]

from_personality(personality) ==
    CASE personality = "analytical" ->
            [emotional_susceptibility |-> 400, analytical_weight |-> 1800,
             social_proof_sensitivity |-> 600, change_rate |-> 700,
             reversal_resistance |-> 1500]
      [] personality = "reactive" ->
            [emotional_susceptibility |-> 1800, analytical_weight |-> 500,
             social_proof_sensitivity |-> 1000, change_rate |-> 1400,
             reversal_resistance |-> 700]
      [] personality = "conformist" ->
            [emotional_susceptibility |-> 1000, analytical_weight |-> 800,
             social_proof_sensitivity |-> 2000, change_rate |-> 1000,
             reversal_resistance |-> 500]
      [] personality = "disengaged" ->
            [emotional_susceptibility |-> 600, analytical_weight |-> 600,
             social_proof_sensitivity |-> 800, change_rate |-> 400,
             reversal_resistance |-> 1200]
      [] OTHER -> DefaultTraits

calculate_processing_mode(agent_arousal, agent_analytical_weight, debate_temperature) ==
    LET temperature_penalty == Mul(debate_temperature, 400)
        arousal_penalty     == Mul(agent_arousal, 300)
    IN  Max(100, agent_analytical_weight - temperature_penalty - arousal_penalty)

----------------------------------------------------------------------------
(* models.py: Opinion *)

\* Opinion(position, confidence, stability) as the dataclass constructs it
NewOpinion(position, confidence, stability) ==
    [position |-> position, confidence |-> confidence, stability |-> stability,
     cognitive_investment |-> 0, investment_direction |-> 0,
     position_history |-> << >>]

\* the first history entry, appended by initialize_population
RecordInitialPosition(op) ==
    [op EXCEPT !.position_history = Append(@, op.position)]

classify(op) ==
    IF op.position < -300 THEN "contrarian"
    ELSE IF op.position > 300 THEN "consensus"
    ELSE "neutral"

Sign(x) == IF x < 0 THEN -1 ELSE IF x > 0 THEN 1 ELSE 0

\* the position clamp with its upper bound forgotten
ClampPositionLowerOnly(x) == Max(-1000, x)

\* self.position = max(-1.0, min(1.0, self.position + delta))
ClampPosition(x) == Max(-1000, Min(1000, x))

\* self.stability = min(0.9, self.stability + 0.01)
NextStability(stability) == Min(900, stability + 10)

\* an update that forgets to record the new position
RecordHistoryDropped(history, position) == history

\* self.position_history.append(self.position)
RecordHistory(history, position) == Append(history, position)

\* the backlash branch: influence after the random draw
Backlash(influence, emotional_impact, is_contrarian_source, system2_capacity, traits, draw) ==
    IF emotional_impact > 800 /\ is_contrarian_source
    THEN LET backlash_probability ==
                 Mul(Mul(300, system2_capacity), 2000 - traits.emotional_susceptibility)
         IN  IF draw < backlash_probability THEN -Mul(influence, 500) ELSE influence
    ELSE influence

\* a reversal that adds to the investment instead of eroding it
ErodedInvestmentGrowing(investment, amount) == investment + amount

\* max(0.0, self.cognitive_investment - abs(influence) * erosion_rate)
ErodedInvestment(investment, amount) == Max(0, investment - amount)

\* the investment gain with its cap forgotten
GrownInvestmentUncapped(investment, investment_gain) == investment + investment_gain

\* min(2.0, self.cognitive_investment + investment_gain)
GrownInvestment(investment, investment_gain) == Min(2000, investment + investment_gain)

\* a reversal that forgets the direction once the investment is eroded to 0
DirectionAfterReversalReset(direction, eroded) == IF eroded = 0 THEN 0 ELSE direction

\* the reversal branch does not assign investment_direction
DirectionAfterReversal(direction, eroded) == direction

\* the cognitive-investment branch: effective influence, new investment and direction
Investment(op, influence, source_trust, traits) ==
    LET influence_sign  == Sign(influence)
        investment_sign == Sign(op.investment_direction)
    IN  IF influence_sign # 0 /\ investment_sign # 0 /\ influence_sign # investment_sign
        THEN LET \* exp(-investment * 2.0) ** reversal_resistance
                 reversal_resistance ==
                     ExpNeg(Mul(op.cognitive_investment * 2, traits.reversal_resistance))
                 erosion_rate == Quot(20, traits.reversal_resistance)
             IN  [effective_influence  |-> Mul(influence, reversal_resistance),
                  cognitive_investment |->
                      ErodedInvestment(op.cognitive_investment,
                                       Mul(Abs(influence), erosion_rate)),
                  investment_direction |->
                      DirectionAfterReversal(op.investment_direction,
                          ErodedInvestment(op.cognitive_investment,
                                           Mul(Abs(influence), erosion_rate))),
                  reversal             |-> TRUE]
        ELSE LET investment_gain ==
                     Mul(Mul(Mul(Abs(influence), source_trust), 800),
                         traits.reversal_resistance)
             IN  [effective_influence  |-> influence,
                  cognitive_investment |->
                      GrownInvestment(op.cognitive_investment, investment_gain),
                  investment_direction |->
                      IF influence_sign # 0
                      THEN Mul(op.investment_direction, 800) + influence_sign * 200
                      ELSE op.investment_direction,
                  reversal             |-> FALSE]

\* Opinion.update: the updated opinion and the returned change of position
OpinionUpdate(op, influence, source_trust, emotional_impact, is_contrarian_source, logical_coherence, traits, debate_temperature, agent_arousal, draw) ==
    LET system2_capacity ==
            calculate_processing_mode(agent_arousal, traits.analytical_weight,
                                      debate_temperature)
        system1_weight == 1000 - system2_capacity
        susceptibility0 ==
            Mul(1000 - Mul(op.confidence, 400), 1000 - Mul(op.stability, 300))
        emotional_effectiveness  == Mul(emotional_impact, traits.emotional_susceptibility)
        analytical_effectiveness == Mul(logical_coherence, traits.analytical_weight)
        content_effectiveness ==
            Mul(system1_weight, emotional_effectiveness)
            + Mul(system2_capacity, analytical_effectiveness)
        system1_susceptibility_boost == Mul(Mul(system1_weight, emotional_impact), 400)
        susceptibility ==
            Mul(Mul(susceptibility0, 1000 + system1_susceptibility_boost),
                traits.change_rate)
        influence1 == Backlash(influence, emotional_impact, is_contrarian_source,
                               system2_capacity, traits, draw)
        inv   == Investment(op, influence1, source_trust, traits)
        delta == Mul(Mul(Mul(Mul(inv.effective_influence, source_trust),
                             susceptibility), content_effectiveness), 150)
        new_position == ClampPosition(op.position + delta)
    IN  [opinion |->
            [position             |-> new_position,
             confidence           |-> op.confidence,
             stability            |-> NextStability(op.stability),
             cognitive_investment |-> inv.cognitive_investment,
             investment_direction |-> inv.investment_direction,
             position_history     |-> RecordHistory(op.position_history, new_position)],
         delta |-> new_position - op.position]

----------------------------------------------------------------------------
(* models.py: EmotionalState, Agent *)

NewEmotionalState(arousal, valence, engagement, anger, anxiety) ==
    [arousal |-> arousal, valence |-> valence, engagement |-> engagement,
     anger |-> anger, anxiety |-> anxiety]

urgency_multiplier(state) ==
    500 + Mul(state.arousal, 300) + Mul(state.anger, 200) + Mul(state.engagement, 200)

\* EmotionalState.decay(rate)
decay(state, rate) ==
    [state EXCEPT
        !.arousal    = state.arousal - Mul(state.arousal - 400, rate),
        !.anger      = Max(0, state.anger - Mul(rate, 1500)),
        !.engagement = Max(300, state.engagement - Mul(rate, 500)),
        !.valence    = Mul(state.valence, 1000 - Mul(rate, 500))]

\* Agent(...) with the dataclass defaults for the fields not given
NewAgent(id, role, opinion, emotional_state, personality, traits) ==
    [id |-> id, role |-> role, opinion |-> opinion,
     emotional_state |-> emotional_state,
     personality |-> personality, personality_traits |-> traits,
     trust_scores |-> << >>,
     posts_made |-> << >>,
     has_converted_to_contrarian |-> FALSE,
     has_converted_to_consensus |-> FALSE]

\* Agent.get_trust: trust_scores.get(other_id, 0.5)
get_trust(agent, other_id) ==
    IF other_id \in DOMAIN agent.trust_scores THEN agent.trust_scores[other_id] ELSE 500

\* a trust clamp with its lower bound forgotten
ClampTrustUpperOnly(x) == Min(1000, x)

\* the value update_trust stores
ClampTrust(x) == Max(100, Min(1000, x))

\* Agent.update_trust: trust_scores[other_id] = clamp(current + delta)
update_trust(agent, other_id, delta) ==
    LET current == get_trust(agent, other_id)
        scores  == agent.trust_scores
    IN  [agent EXCEPT !.trust_scores =
            [k \in DOMAIN scores \cup {other_id} |->
                IF k = other_id THEN ClampTrust(current + delta) ELSE scores[k]]]

----------------------------------------------------------------------------
(* tracking.py: detect_conversion *)

\* trigger_post = None
NoPost == [id |-> 0, content |-> "None", author_id |-> 0]

\* a detector that ignores the one-shot flags
AlreadyConvertedIgnored(flag) == FALSE

\* whether the one-shot flag suppresses a conversion in a direction
AlreadyConverted(flag) == flag

ConversionEvent(agent, round, direction, prev_pos, curr_pos, trigger_post) ==
    [round_num |-> round, agent_id |-> agent.id, direction |-> direction,
     prev_position |-> prev_pos, new_position |-> curr_pos,
     trigger_post_content |-> trigger_post.content,
     trigger_post_author  |-> trigger_post.author_id,
     agent_arousal |-> agent.emotional_state.arousal,
     agent_anger |-> agent.emotional_state.anger]

\* detect_conversion: the agent with its flags updated, and the sequence of
\* events returned (empty for None, one event otherwise)
detect_conversion(agent, round, trigger_post) ==
    LET history == agent.opinion.position_history
        n       == Len(history)
    IN  IF n < 2 THEN [agent |-> agent, events |-> << >>]
        ELSE LET prev_pos == history[n - 1]
                 curr_pos == history[n]
             IN  IF agent.role # "neutral_observer"
                 THEN [agent |-> agent, events |-> << >>]
                 ELSE IF prev_pos >= -300 /\ curr_pos < -300
                         /\ ~AlreadyConverted(agent.has_converted_to_contrarian)
                 THEN [agent  |-> [agent EXCEPT !.has_converted_to_contrarian = TRUE],
                       events |-> <<ConversionEvent(agent, round, "to_contrarian",
                                                    prev_pos, curr_pos, trigger_post)>>]
                 ELSE IF prev_pos <= 300 /\ curr_pos > 300
                         /\ ~AlreadyConverted(agent.has_converted_to_consensus)
                 THEN [agent  |-> [agent EXCEPT !.has_converted_to_consensus = TRUE],
                       events |-> <<ConversionEvent(agent, round, "to_consensus",
                                                    prev_pos, curr_pos, trigger_post)>>]
                 ELSE [agent |-> agent, events |-> << >>]

----------------------------------------------------------------------------
(* emotions.py: EmotionalEngine *)

EmotionalImpact(arousal_delta, anger_delta, valence_delta, engagement_delta, trust_delta) ==
    [arousal_delta |-> arousal_delta, anger_delta |-> anger_delta,
     valence_delta |-> valence_delta, engagement_delta |-> engagement_delta,
     trust_delta |-> trust_delta]

calculate_emotional_impact(post, opinion_alignment) ==
    LET provoked == post.provocativeness > 500
        disagree == opinion_alignment < 0
        agreeable == post.consensus_orientation > 600
        arousal0 == Mul(post.emotional_intensity, 300)
        anger    == IF provoked /\ disagree
                    THEN Mul(Mul(post.provocativeness, Abs(opinion_alignment)), 500)
                    ELSE 0
        valence0 == IF provoked
                    THEN IF disagree THEN -Mul(post.provocativeness, 300)
                         ELSE Mul(post.provocativeness, 100)
                    ELSE 0
        trust0   == IF provoked /\ disagree /\ post.provocativeness > 800
                    THEN -150 ELSE 0
        engage0  == IF provoked /\ ~disagree THEN Mul(post.provocativeness, 300) ELSE 0
        arousal1 == IF agreeable
                    THEN IF opinion_alignment > 0 THEN arousal0 - 100 ELSE arousal0 + 50
                    ELSE arousal0
        valence1 == IF agreeable /\ opinion_alignment > 0 THEN valence0 + 150 ELSE valence0
        trust1   == IF agreeable /\ opinion_alignment > 0 THEN trust0 + 50 ELSE trust0
    IN  EmotionalImpact(arousal1, anger, valence1,
                        engage0 + Mul(100, post.emotional_intensity), trust1)

\* the [0,1] clamp with its upper bound forgotten
ClampUnitLowerOnly(x) == Max(0, x)

\* the clamp of a [0,1] field in apply_impact
ClampUnit(x) == Max(0, Min(1000, x))

\* the clamp of valence in apply_impact
ClampValence(x) == Max(-1000, Min(1000, x))

\* EmotionalEngine.apply_impact
apply_impact(agent, impact, author_id) ==
    LET state  == agent.emotional_state
        state1 == [state EXCEPT
                     !.arousal    = ClampUnit(state.arousal + impact.arousal_delta),
                     !.anger      = ClampUnit(state.anger + impact.anger_delta),
                     !.valence    = ClampValence(state.valence + impact.valence_delta),
                     !.engagement = ClampUnit(state.engagement + impact.engagement_delta)]
        agent1 == [agent EXCEPT !.emotional_state = state1]
    IN  IF impact.trust_delta # 0
        THEN update_trust(agent1, author_id, impact.trust_delta)
        ELSE agent1

\* the stance process_post_for_reader infers for a post
EngineStance(post) ==
    IF post.provocativeness > 500 THEN -700
    ELSE IF post.consensus_orientation > 600 THEN 600
    ELSE 0

\* process_post_for_reader: the opinion alignment and the impact
opinion_alignment(post, reader) ==
    1000 - TDiv(Abs(EngineStance(post) - reader.opinion.position), 2)

process_post_for_reader(post, reader) ==
    calculate_emotional_impact(post, opinion_alignment(post, reader))

calculate_response_probability(agent, base_rate) ==
    LET urgency     == urgency_multiplier(agent.emotional_state)
        role_boost  == IF agent.role = "contrarian_provocateur" THEN 200 ELSE 0
        anger_boost == Mul(agent.emotional_state.anger, 300)
    IN  Min(900, Mul(base_rate, urgency) + role_boost + anger_boost)

----------------------------------------------------------------------------
(* models.py: Post; agents.py: the content scorer's output for the stubbed  *)
(* texts (one canned text per role, and the error marker)                   *)

NewPost(id, author_id, round, kind, ei, prov, lc, co, author) ==
    [id |-> id, author_id |-> author_id, round_num |-> round, content |-> kind,
     emotional_intensity |-> ei, provocativeness |-> prov,
     logical_coherence |-> lc, consensus_orientation |-> co,
     visibility_score |-> 0,
     author_arousal |-> author.emotional_state.arousal,
     author_opinion |-> author.opinion.position]

\* ContentAnalyzer.analyze of the stubbed text: emotional_intensity,
\* provocativeness, logical_coherence, consensus_orientation
analyze(content) ==
    CASE content = "contrarian_text" -> [ei |-> 900, prov |-> 900, lc |-> 400, co |-> 100]
      [] content = "consensus_text"  -> [ei |-> 300, prov |-> 100, lc |-> 800, co |-> 800]
      [] content = "neutral_text"    -> [ei |-> 300, prov |-> 200, lc |-> 600, co |-> 500]
      [] OTHER                       -> [ei |-> 0, prov |-> 0, lc |-> 500, co |-> 300]

engagement_potential(post) ==
    Mul(post.emotional_intensity, 400) + Mul(post.provocativeness, 400)
    + Mul(1000 - post.logical_coherence, 200)

----------------------------------------------------------------------------
(* amplification.py *)

\* AmplificationAlgorithm(config): the weights copied from the configuration
AmplificationAlgorithm(emotion_weight, provocative_weight, recency_weight) ==
    [emotion_weight |-> emotion_weight, provocative_weight |-> provocative_weight,
     recency_weight |-> recency_weight]

\* the amplifier of the default SimulationConfig
DefaultAmplifier == AmplificationAlgorithm(400, 400, 200)

EmotionWeight == amplifier.emotion_weight

ProvocativeWeight == amplifier.provocative_weight

RecencyWeight == amplifier.recency_weight

\* outcomes of random.uniform(0.95, 1.05)
Noises == {950, 1050}

\* an engagement boost that damps instead of amplifying
EngagementBoostDamped(engagement) == 1000 - Mul(Mul(engagement, engagement), 600)

\* engagement_boost = 1.0 + (engagement ** 2) * 0.6
EngagementBoost(engagement) == 1000 + Mul(Mul(engagement, engagement), 600)

compute_visibility(post, current_round, noise) ==
    LET rounds_old      == Max(0, current_round - post.round_num)
        recency_score   == Quot(1000, 1000 + rounds_old * 250)
        base_visibility == Mul(EmotionWeight, post.emotional_intensity)
                           + Mul(ProvocativeWeight, post.provocativeness)
                           + Mul(RecencyWeight, recency_score)
        engagement      == engagement_potential(post)
        engagement_boost == EngagementBoost(engagement)
    IN  Mul(Mul(base_visibility, engagement_boost), noise)

\* sorted(posts, key=visibility_score, reverse=True): a stable sort, as a
\* stable insertion of each post in turn
RECURSIVE InsertByVisibility(_, _)
InsertByVisibility(sorted, post) ==
    IF sorted = << >> THEN <<post>>
    ELSE IF Head(sorted).visibility_score >= post.visibility_score
         THEN <<Head(sorted)>> \o InsertByVisibility(Tail(sorted), post)
         ELSE <<post>> \o sorted

RECURSIVE SortByVisibility(_)
SortByVisibility(posts) ==
    IF posts = << >> THEN << >>
    ELSE InsertByVisibility(SortByVisibility(SubSeq(posts, 1, Len(posts) - 1)),
                            posts[Len(posts)])

\* rank_feed for one outcome of the noise draws (noise[i] is the draw for
\* posts[i]): the posts with their visibility scores set, and the ranking
ScorePosts(posts, current_round, noise) ==
    [i \in 1..Len(posts) |->
        [posts[i] EXCEPT !.visibility_score =
            compute_visibility(posts[i], current_round, noise[i])]]

rank_feed(posts, current_round, noise) ==
    SortByVisibility(ScorePosts(posts, current_round, noise))

\* weights = [p.visibility_score + 0.1 for p in ranked]
SampleWeight(post) == post.visibility_score + 100

RECURSIVE SumWeights(_)
SumWeights(remaining) ==
    IF remaining = << >> THEN 0
    ELSE SampleWeight(Head(remaining)) + SumWeights(Tail(remaining))

\* the index the inner loop selects for the draw r: the first i with
\* r <= cumsum(1..i), or 0 when the loop ends without a selection
RECURSIVE PickIndex(_, _, _, _)
PickIndex(remaining, r, i, cumsum) ==
    IF i > Len(remaining) THEN 0
    ELSE IF r <= cumsum + SampleWeight(remaining[i]) THEN i
    ELSE PickIndex(remaining, r, i + 1, cumsum + SampleWeight(remaining[i]))

\* a selection that leaves the selected post in the pool
RemoveAtSkipped(seq, i) == seq

\* remaining.pop(i)
RemoveAt(seq, i) == SubSeq(seq, 1, i - 1) \o SubSeq(seq, i + 1, Len(seq))

\* the draws r = random.random() * total that select different posts:
\* one value at, and one just above, every cumulative sum below total
RECURSIVE CumSums(_, _)
CumSums(remaining, cumsum) ==
    IF remaining = << >> THEN {}
    ELSE {cumsum + SampleWeight(Head(remaining))}
         \cup CumSums(Tail(remaining), cumsum + SampleWeight(Head(remaining)))

SampleDraws(remaining) ==
    LET total == SumWeights(remaining)
        cs    == CumSums(remaining, 0)
    IN  {r \in {0} \cup cs \cup {c + 1 : c \in cs} : r >= 0 /\ r < total}

\* the selection loop with `iterations' iterations left: the set of possible
\* selections (sequences of posts), over all outcomes of the draws
RECURSIVE SelectLoop(_, _)
SelectLoop(remaining, iterations) ==
    IF iterations <= 0 THEN {<< >>}
    ELSE IF SumWeights(remaining) <= 0 THEN {<< >>}
    ELSE UNION {
            LET i == PickIndex(remaining, r, 1, 0)
            IN  IF i = 0
                THEN SelectLoop(remaining, iterations - 1)
                ELSE {<<remaining[i]>> \o rest :
                         rest \in SelectLoop(RemoveAt(remaining, i), iterations - 1)}
            : r \in SampleDraws(remaining)}

\* sample_visible_posts: the possible results, each the posts as rank_feed
\* left them (scored or untouched) and the selected feed
sample_visible_posts(posts, current_round, sample_size) ==
    IF posts = << >> THEN {[posts |-> posts, selected |-> << >>]}
    ELSE IF Len(posts) <= sample_size THEN {[posts |-> posts, selected |-> posts]}
    ELSE UNION {
            LET scored == ScorePosts(posts, current_round, noise)
                ranked == SortByVisibility(scored)
            IN  {[posts |-> scored, selected |-> sel] :
                    sel \in SelectLoop(ranked, Min(sample_size, Len(ranked)))}
            : noise \in [1..Len(posts) -> Noises]}

compute_opinion_influence(post, reader_position) ==
    LET contrarian == post.provocativeness > 500
                      /\ post.provocativeness > post.consensus_orientation
        post_position ==
            IF contrarian THEN -700 - Mul(post.provocativeness, 300)
            ELSE IF post.consensus_orientation > 500
                 THEN 500 + Mul(post.consensus_orientation, 300)
                 ELSE 0
        influence_strength ==
            Mul(post.emotional_intensity, 400) + Mul(post.logical_coherence, 300)
            + Mul(Min(post.visibility_score, 1000), 300)
    IN  [influence_direction |-> post_position - reader_position,
         influence_strength  |-> influence_strength,
         is_contrarian       |-> contrarian]

----------------------------------------------------------------------------
(* Opinion.update called directly: one neutral agent, inputs drawn from     *)
(* bounded sets, each call followed by detect_conversion as in run_round.   *)

MaxCalls == 4

StartPositions == {-200, 200}

InitStabilities == {200, 950}

\* arguments of one Opinion.update call: influence, source_trust,
\* emotional_impact, logical_coherence, is_contrarian_source,
\* debate_temperature, agent_arousal
UpdateInput(influence, trust, ei, lc, contr, temp, arousal) ==
    [influence |-> influence, trust |-> trust, ei |-> ei, lc |-> lc,
     contr |-> contr, temp |-> temp, arousal |-> arousal]

UpdateInputs ==
    { UpdateInput(-2000, 1000, 900, 400, TRUE, 1000, 1000),
      UpdateInput(-2000, 1000, 1000, 1000, TRUE, 0, 0),
      UpdateInput(-200, 1000, 300, 400, TRUE, 500, 500),
      UpdateInput(0, 500, 0, 0, FALSE, 0, 0),
      UpdateInput(200, 100, 300, 800, FALSE, 500, 500),
      UpdateInput(2000, 1000, 900, 800, FALSE, 500, 500) }

\* outcomes of random.random()
Draws == {0, 999}

NewTracker == [conversion_events |-> << >>, round_summaries |-> << >>]

\* a neutral observer as initialize_population creates it
NewNeutral(id, personality, start_pos, stability) ==
    NewAgent(id, "neutral_observer",
             RecordInitialPosition(NewOpinion(start_pos, 300, stability)),
             NewEmotionalState(400, 0, 400, 0, 400),
             personality, from_personality(personality))

\* the contrarian provocateur as initialize_population creates it
NewContrarian(id) ==
    NewAgent(id, "contrarian_provocateur",
             RecordInitialPosition(NewOpinion(-850, 900, 800)),
             NewEmotionalState(700, -200, 850, 300, 100),
             "balanced", DefaultTraits)

\* a consensus advocate as initialize_population creates it
NewConsensus(id, start_pos) ==
    NewAgent(id, "consensus_advocate",
             RecordInitialPosition(NewOpinion(start_pos, 700, 600)),
             NewEmotionalState(500, 100, 600, 100, 200),
             "balanced", DefaultTraits)

InitOpinion ==
    /\ \E personality \in Personalities, start_pos \in StartPositions,
          stability \in InitStabilities :
          agents = <<NewNeutral(1, personality, start_pos, stability)>>
    /\ all_posts = << >>
    /\ tracker = NewTracker
    /\ round_num = 0
    /\ pc = "harness"
    /\ speakers = << >>
    /\ round_posts = << >>
    /\ visible_posts = << >>
    /\ round_conversions = << >>
    /\ llm_calls = 0
    /\ last_call = << >>
    /\ ncalls = 0
    /\ sd = << >>
    /\ amplifier = DefaultAmplifier

OpinionUpdateCall ==
    /\ pc = "harness"
    /\ ncalls < MaxCalls
    /\ \E in \in UpdateInputs, draw \in Draws :
          LET a  == agents[1]
              r  == OpinionUpdate(a.opinion, in.influence, in.trust, in.ei, in.contr,
                                  in.lc, a.personality_traits, in.temp, in.arousal,
                                  draw)
              a1 == [a EXCEPT !.opinion = r.opinion]
              d  == detect_conversion(a1, ncalls + 1, NoPost)
          IN  /\ agents' = <<d.agent>>
              /\ tracker' = [tracker EXCEPT !.conversion_events = @ \o d.events]
              /\ last_call' =
                    LET system2_capacity ==
                            calculate_processing_mode(in.arousal,
                                a.personality_traits.analytical_weight, in.temp)
                        influence1 ==
                            Backlash(in.influence, in.ei, in.contr, system2_capacity,
                                     a.personality_traits, draw)
                    IN  [op |-> "update", before |-> a.opinion, influence |-> influence1,
                         investment |-> Investment(a.opinion, influence1, in.trust,
                                                   a.personality_traits),
                         system2_capacity |-> system2_capacity,
                         system1_weight |-> 1000 - system2_capacity]
    /\ ncalls' = ncalls + 1
    /\ UNCHANGED <<sd, amplifier, all_posts, round_num, pc, speakers, round_posts, visible_posts,
                   round_conversions, llm_calls>>

NextOpinion == OpinionUpdateCall

SpecOpinion == InitOpinion /\ [][NextOpinion]_vars

----------------------------------------------------------------------------
(* Properties of Opinion.update and detect_conversion (SpecOpinion) *)

Directions == {"to_contrarian", "to_consensus"}

EventsOf(events, agent_id, direction) ==
    {k \in 1..Len(events) :
        events[k].agent_id = agent_id /\ events[k].direction = direction}

\* indices k of a history at which the position crosses below -0.3
DownCrossings(history) ==
    {k \in 2..Len(history) : history[k - 1] >= -300 /\ history[k] < -300}

\* indices k of a history at which the position crosses above +0.3
UpCrossings(history) ==
    {k \in 2..Len(history) : history[k - 1] <= 300 /\ history[k] > 300}

\* C1: conversion recording is one-shot per direction: whatever the sequence
\* of updates, each followed by detect_conversion, the tracker holds at most
\* one to_contrarian and at most one to_consensus event per agent.
C1_ConversionOneShot ==
    \A i \in 1..Len(agents) : \A direction \in Directions :
        Cardinality(EventsOf(tracker.conversion_events, agents[i].id, direction)) <= 1

\* C1 witness: a position that crossed below -0.3 twice, with one event recorded
C1_Witness ==
    /\ pc = "harness"
    /\ Cardinality(DownCrossings(agents[1].opinion.position_history)) >= 2
    /\ Cardinality(EventsOf(tracker.conversion_events, 1, "to_contrarian")) = 1

\* C3: after every Opinion.update call the position lies in [-1, 1], and so
\* does every position recorded in the history.
C3_PositionInRange ==
    \A i \in 1..Len(agents) :
        LET op == agents[i].opinion
        IN  /\ op.position >= -1000 /\ op.position <= 1000
            /\ \A k \in 1..Len(op.position_history) :
                   op.position_history[k] >= -1000 /\ op.position_history[k] <= 1000

\* C3 witness: an update whose delta was cut by the clamp at the upper pole
C3_Witness ==
    /\ pc = "harness"
    /\ ncalls > 0
    /\ agents[1].opinion.position = 1000

\* C4: after N update calls the history holds N+1 entries (the initial value
\* and one per call) and its last entry is the current position.
C4_HistoryLength ==
    pc = "harness" =>
        LET op == agents[1].opinion
        IN  /\ Len(op.position_history) = ncalls + 1
            /\ op.position_history[Len(op.position_history)] = op.position

\* C4 witness: three calls made, four entries, the position moved
C4_Witness ==
    /\ pc = "harness"
    /\ ncalls = 3
    /\ Len(agents[1].opinion.position_history) = 4
    /\ agents[1].opinion.position_history[4] # agents[1].opinion.position_history[1]

\* C5: stability never decreases across an update call, for every initial
\* stability in [0, 1].
C5_StabilityNonDecreasing ==
    [][\A i \in 1..Len(agents) :
          i \in 1..Len(agents') =>
              agents'[i].opinion.stability >= agents[i].opinion.stability]_vars

----------------------------------------------------------------------------
(* EmotionalEngine.apply_impact and EmotionalState.decay called directly on *)
(* one agent, with deltas of any size and decay rates in [0, 1].            *)

\* arousal, anger, valence and engagement deltas, of any size and sign
EmotionDeltas ==
    { <<5000, 5000, 5000, 5000>>, <<-5000, -5000, -5000, -5000>>,
      <<5000, 5000, -5000, -5000>>, <<270, 450, -270, 90>> }

TrustDeltas == {-150, 0, 50}

\* the deltas each reader of the harness receives
ReaderDeltas(reader) ==
    IF reader = 1 THEN EmotionDeltas ELSE {<<270, 450, -270, 90>>}

DecayRates == {0, 120, 1000}

\* ids of the agents that author posts
AuthorIds == {1, 2, 3}

HarnessFrame == <<sd, amplifier, all_posts, tracker, round_num, pc, speakers, round_posts,
                  visible_posts, round_conversions, llm_calls>>

InitEmotion ==
    /\ \E a \in {NewContrarian(1), NewConsensus(1, 700),
                 NewNeutral(1, "balanced", 0, 200)} :
          agents = <<a, NewNeutral(2, "balanced", 0, 200)>>
    /\ all_posts = << >>
    /\ tracker = NewTracker
    /\ round_num = 0
    /\ pc = "harness"
    /\ speakers = << >>
    /\ round_posts = << >>
    /\ visible_posts = << >>
    /\ round_conversions = << >>
    /\ llm_calls = 0
    /\ last_call = << >>
    /\ ncalls = 0
    /\ sd = << >>
    /\ amplifier = DefaultAmplifier

ApplyImpactCall ==
    /\ pc = "harness"
    /\ ncalls < MaxCalls
    /\ \E reader \in 1..Len(agents), trust_delta \in TrustDeltas :
          \E d \in ReaderDeltas(reader), author_id \in AuthorIds \ {agents[reader].id} :
             LET impact == EmotionalImpact(d[1], d[2], d[3], d[4], trust_delta)
             IN  /\ agents' = [agents EXCEPT
                                  ![reader] = apply_impact(agents[reader], impact, author_id)]
                 /\ last_call' = [op |-> "apply_impact", reader |-> reader,
                                  impact |-> impact, author_id |-> author_id]
    /\ ncalls' = ncalls + 1
    /\ UNCHANGED HarnessFrame

DecayCall ==
    /\ pc = "harness"
    /\ ncalls < MaxCalls
    /\ \E rate \in DecayRates :
          /\ agents' = [agents EXCEPT
                          ![1].emotional_state = decay(agents[1].emotional_state, rate)]
          /\ last_call' = [op |-> "decay", rate |-> rate]
    /\ ncalls' = ncalls + 1
    /\ UNCHANGED HarnessFrame

NextEmotion == ApplyImpactCall \/ DecayCall

SpecEmotion == InitEmotion /\ [][NextEmotion]_vars

\* C7: every EmotionalState field stays within its declared bound after any
\* interleaving of apply_impact (deltas of any size and sign) and decay
\* (rate in [0, 1]).
C7_EmotionInBounds ==
    \A i \in 1..Len(agents) :
        LET state == agents[i].emotional_state
        IN  /\ state.arousal >= 0 /\ state.arousal <= 1000
            /\ state.engagement >= 0 /\ state.engagement <= 1000
            /\ state.anger >= 0 /\ state.anger <= 1000
            /\ state.anxiety >= 0 /\ state.anxiety <= 1000
            /\ state.valence >= -1000 /\ state.valence <= 1000

\* C7 witness: an impact with deltas beyond the field width was applied and
\* then decayed: the clamps held the fields at their bounds
C7_Witness ==
    /\ pc = "harness"
    /\ ncalls >= 2
    /\ last_call.op = "decay"
    /\ last_call.rate = 120
    /\ agents[1].emotional_state.arousal > 900
    /\ agents[1].emotional_state.valence < -900

----------------------------------------------------------------------------
(* AmplificationAlgorithm.sample_visible_posts called once on a drawn list  *)
(* of distinct posts, for every outcome of the noise and selection draws.   *)

MaxPosts == 3

MaxSample == 2

PostTexts == {"contrarian_text", "consensus_text", "neutral_text"}

SampleRounds == {1, 3}

\* configured weights: the defaults, and a negative recency weight, under
\* which posts of low emotion and provocation get a negative sampling weight
SampleAmplifiers == {DefaultAmplifier, AmplificationAlgorithm(400, 400, -400)}

\* a post of the given text written in round 1 by a consensus advocate
SamplePost(id, content) ==
    LET m == analyze(content)
    IN  NewPost(id, 1, 1, content, m.ei, m.prov, m.lc, m.co, NewConsensus(1, 700))

InitSample ==
    /\ agents = << >>
    /\ \E n \in 0..MaxPosts : \E texts \in [1..n -> PostTexts] :
          all_posts = [i \in 1..n |-> SamplePost(i, texts[i])]
    /\ tracker = NewTracker
    /\ round_num = 0
    /\ pc = "harness"
    /\ speakers = << >>
    /\ round_posts = << >>
    /\ visible_posts = << >>
    /\ round_conversions = << >>
    /\ llm_calls = 0
    /\ last_call = << >>
    /\ ncalls = 0
    /\ sd = << >>
    /\ amplifier \in SampleAmplifiers

SampleCall ==
    /\ pc = "harness"
    /\ ncalls = 0
    /\ \E sample_size \in 0..MaxSample, current_round \in SampleRounds :
          \E result \in sample_visible_posts(all_posts, current_round, sample_size) :
             /\ all_posts' = result.posts
             /\ visible_posts' = result.selected
             /\ last_call' = [op |-> "sample", sample_size |-> sample_size,
                              current_round |-> current_round, posts |-> all_posts]
    /\ ncalls' = ncalls + 1
    /\ UNCHANGED <<sd, amplifier, agents, tracker, round_num, pc, speakers, round_posts,
                   round_conversions, llm_calls>>

NextSample == SampleCall

SpecSample == InitSample /\ [][NextSample]_vars

\* C6: sample_visible_posts never returns the same post twice, never returns
\* more than min(sample_size, len(posts)) posts, and returns only posts of
\* the input list, for every outcome of the random draws.
C6_SampleWithoutReplacement ==
    (pc = "harness" /\ ncalls > 0 /\ last_call.op = "sample") =>
        /\ \A j, k \in 1..Len(visible_posts) :
               j # k => visible_posts[j].id # visible_posts[k].id
        /\ Len(visible_posts) <= Min(last_call.sample_size, Len(last_call.posts))
        /\ \A k \in 1..Len(visible_posts) :
               \E j \in 1..Len(all_posts) : visible_posts[k] = all_posts[j]

\* C6 witness: more posts than the sample size, a full sample drawn by the
\* weighted selection, and not simply the top of the ranking
C6_Witness ==
    /\ pc = "harness"
    /\ ncalls > 0
    /\ last_call.op = "sample"
    /\ last_call.sample_size = 2
    /\ Len(last_call.posts) = 3
    /\ Len(visible_posts) = 2
    /\ visible_posts[1].visibility_score < visible_posts[2].visibility_score

----------------------------------------------------------------------------
(* simulation.py: SimulationEngine.run_simulation, the round loop.          *)
(* The population is scaled down to one contrarian, one consensus advocate  *)
(* and two neutral observers; the text generator is stubbed (one canned     *)
(* text per role) and each call either returns or raises.  Agent.memory     *)
(* feeds only the prompt of the stubbed generator and is not modelled.      *)

MaxRounds == 3

PostsPerRound == 1

EmotionalDecayRate == 120

FeedSampleSize == 10

\* personalities of the two neutral observers: rows of neutral_configs
NeutralConfigs ==
    { <<"analytical", "reactive">>, <<"reactive", "reactive">>,
      <<"conformist", "disengaged">>, <<"disengaged", "balanced">> }

\* the trust-score initialisation of initialize_population
InitialTrust(agent, other) ==
    IF agent.role = "neutral_observer" THEN 500
    ELSE IF agent.role = "consensus_advocate" /\ other.role = "contrarian_provocateur"
         THEN 350
    ELSE IF agent.role = other.role THEN 600
    ELSE 500

WithInitialTrust(population) ==
    [i \in 1..Len(population) |->
        [population[i] EXCEPT !.trust_scores =
            [j \in (1..Len(population)) \ {i} |->
                InitialTrust(population[i], population[j])]]]

initialize_population(personalities, start_pos) ==
    WithInitialTrust(
        << NewContrarian(1), NewConsensus(2, 700),
           NewNeutral(3, personalities[1], start_pos[1], 200),
           NewNeutral(4, personalities[2], start_pos[2], 200) >>)

Init ==
    /\ \E personalities \in NeutralConfigs,
          start_pos \in [1..2 -> StartPositions] :
          agents = initialize_population(personalities, start_pos)
    /\ all_posts = << >>
    /\ tracker = NewTracker
    /\ round_num = 1
    /\ pc = "select"
    /\ speakers = << >>
    /\ round_posts = << >>
    /\ visible_posts = << >>
    /\ round_conversions = << >>
    /\ llm_calls = 0
    /\ last_call = << >>
    /\ ncalls = 0
    /\ sd = << >>
    /\ amplifier = DefaultAmplifier

\* the agents random.choices can return: those with a positive weight
Candidates == {i \in 1..Len(agents) : calculate_response_probability(agents[i], 200) > 0}

Contrarians == {i \in 1..Len(agents) : agents[i].role = "contrarian_provocateur"}

\* a selection that leaves the drawn speakers as they are
ForceContrarianNever(chosen, round) == chosen

\* "Ensure contrarian has voice at least every 3 rounds"
ForceContrarian(chosen, round) ==
    IF Contrarians # {} /\ round % 3 = 0
    THEN LET first == CHOOSE c \in Contrarians : \A d \in Contrarians : c <= d
         IN  IF \E k \in 1..Len(chosen) : chosen[k] = first
             THEN chosen
             ELSE [chosen EXCEPT ![1] = first]
    ELSE chosen

\* "Remove duplicates while maintaining order"
RECURSIVE Unique(_, _)
Unique(chosen, seen) ==
    IF chosen = << >> THEN << >>
    ELSE IF Head(chosen) \in seen THEN Unique(Tail(chosen), seen)
    ELSE <<Head(chosen)>> \o Unique(Tail(chosen), seen \cup {Head(chosen)})

\* select_speakers for one outcome of random.choices
select_speakers(chosen, round) == Unique(ForceContrarian(chosen, round), {})

SelectSpeakers ==
    /\ pc = "select"
    /\ \E chosen \in [1..PostsPerRound -> Candidates] :
          speakers' = select_speakers(chosen, round_num)
    /\ round_posts' = << >>
    /\ pc' = "generate"
    /\ UNCHANGED <<sd, amplifier, agents, all_posts, tracker, round_num, visible_posts,
                   round_conversions, llm_calls, last_call, ncalls>>

\* the text the stubbed generator returns for an agent
GeneratedText(agent) ==
    CASE agent.role = "contrarian_provocateur" -> "contrarian_text"
      [] agent.role = "consensus_advocate"     -> "consensus_text"
      [] OTHER                                 -> "neutral_text"

\* the content generate_post substitutes when the call raises
ErrorMarker == "[API Error: Connection error.]"

\* a generator that calls again after a failure
GenerationCallsWithRetry(raised) == IF raised THEN 2 ELSE 1

\* calls of client.messages.create made by one generate_post
GenerationCalls(raised) == 1

\* LLMAgent.generate_post for one outcome of the call
generate_post(agent, id, round, raised) ==
    LET content == IF raised THEN ErrorMarker ELSE GeneratedText(agent)
        metrics == analyze(content)
    IN  NewPost(id, agent.id, round, content, metrics.ei, metrics.prov,
                metrics.lc, metrics.co, agent)

\* one iteration of the generation loop of run_round
GeneratePost ==
    /\ pc = "generate"
    /\ Len(round_posts) < Len(speakers)
    /\ \E raised \in BOOLEAN :
          LET i    == speakers[Len(round_posts) + 1]
              post == generate_post(agents[i], Len(all_posts) + Len(round_posts) + 1,
                                    round_num, raised)
          IN  /\ round_posts' = Append(round_posts, post)
              /\ agents' = [agents EXCEPT ![i].posts_made = Append(@, post.id)]
              /\ llm_calls' = llm_calls + GenerationCalls(raised)
    /\ pc' = IF Len(round_posts) + 1 = Len(speakers) THEN "sample" ELSE "generate"
    /\ UNCHANGED <<sd, amplifier, all_posts, tracker, round_num, speakers, visible_posts,
                   round_conversions, last_call, ncalls>>

\* self.all_posts.extend(round_posts); sample_visible_posts(..., sample_size=10)
SampleFeed ==
    /\ pc = "sample"
    /\ \E result \in sample_visible_posts(all_posts \o round_posts, round_num,
                                          FeedSampleSize) :
          /\ all_posts' = result.posts
          /\ visible_posts' = result.selected
          /\ round_posts' = [k \in 1..Len(round_posts) |->
                                result.posts[Len(all_posts) + k]]
    /\ pc' = "distribute"
    /\ UNCHANGED <<sd, amplifier, agents, tracker, round_num, speakers, round_conversions,
                   llm_calls, last_call, ncalls>>

\* outcomes of the backlash draws of one round: one per reader
NeutralIds == {i \in 1..Len(agents) : agents[i].role = "neutral_observer"}

\* one outcome of random.random() per agent of the loop; the agents that never
\* reach the backlash test draw nothing
BacklashDraws ==
    {draws \in [1..Len(agents) -> Draws] :
        \A i \in (1..Len(agents)) \ NeutralIds : draws[i] = 0}

\* the state the agent loop of run_round carries: the agents, the shared
\* local last_influential_post and the local round_conversions
LoopState(population, last_influential_post, conversions) ==
    [agents |-> population, last_influential_post |-> last_influential_post,
     round_conversions |-> conversions]

\* a guard that lets every role update its opinion
UpdatesOpinionAnyRole(agent) == TRUE

\* `if agent.role == AgentRole.NEUTRAL_OBSERVER' before the opinion update
UpdatesOpinion(agent) == agent.role = "neutral_observer"

\* the body of the inner loop: agent i reads one post
ReadPost(st, i, post, round, draws) ==
    IF post.author_id = st.agents[i].id THEN st
    ELSE
      LET agent  == st.agents[i]
          impact == process_post_for_reader(post, agent)
          felt   == apply_impact(agent, impact, post.author_id)
      IN  IF ~UpdatesOpinion(felt)
          THEN [st EXCEPT !.agents[i] = felt]
          ELSE
            LET inf == compute_opinion_influence(post, felt.opinion.position)
                upd == OpinionUpdate(felt.opinion,
                                     Mul(inf.influence_direction, inf.influence_strength),
                                     get_trust(felt, post.author_id),
                                     post.emotional_intensity, inf.is_contrarian,
                                     post.logical_coherence, felt.personality_traits,
                                     500, 500, draws[i])
                moved == [felt EXCEPT !.opinion = upd.opinion]
                last  == IF Abs(upd.delta) > 50 THEN post
                         ELSE st.last_influential_post
                conv  == detect_conversion(moved, round, last)
            IN  LoopState([st.agents EXCEPT ![i] = conv.agent], last,
                          st.round_conversions \o conv.events)

\* the inner loop: agent i reads the visible posts from the k-th on
RECURSIVE ReadFeed(_, _, _, _, _, _)
ReadFeed(st, i, posts, k, round, draws) ==
    IF k > Len(posts) THEN st
    ELSE ReadFeed(ReadPost(st, i, posts[k], round, draws), i, posts, k + 1,
                  round, draws)

\* the agent loop, iterating the agents in the given order from the k-th on
RECURSIVE Distribute(_, _, _, _, _, _)
Distribute(st, posts, order, k, round, draws) ==
    IF k > Len(order) THEN st
    ELSE Distribute(ReadFeed(st, order[k], posts, 1, round, draws), posts, order,
                    k + 1, round, draws)

\* `for agent in self.agents'
ListOrder == [i \in 1..Len(agents) |-> i]

DistributeFeed ==
    /\ pc = "distribute"
    /\ \E draws \in BacklashDraws :
          LET st == Distribute(LoopState(agents, NoPost, << >>), visible_posts,
                               ListOrder, 1, round_num, draws)
          IN  /\ agents' = st.agents
              /\ round_conversions' = st.round_conversions
    /\ pc' = "decay"
    /\ UNCHANGED <<sd, amplifier, all_posts, tracker, round_num, speakers, round_posts,
                   visible_posts, llm_calls, last_call, ncalls>>

\* agent.emotional_state.decay(emotional_decay_rate) for every agent
DecayEmotions ==
    /\ pc = "decay"
    /\ agents' = [i \in 1..Len(agents) |->
                    [agents[i] EXCEPT !.emotional_state = decay(@, EmotionalDecayRate)]]
    /\ pc' = "record"
    /\ UNCHANGED <<sd, amplifier, all_posts, tracker, round_num, speakers, round_posts,
                   visible_posts, round_conversions, llm_calls, last_call, ncalls>>

\* the opinion counts record_round and _count_opinions compute
opinion_distribution(population) ==
    [t \in {"contrarian", "neutral", "consensus"} |->
        Cardinality({i \in 1..Len(population) : classify(population[i].opinion) = t})]

\* a recorder that drops the round's conversions
ExtendConversionsDropped(events, conversions) == events

\* self.conversion_events.extend(conversions)
ExtendConversions(events, conversions) == events \o conversions

RoundSummary(round, posts, population, conversions) ==
    [round_num |-> round,
     posts |-> [k \in 1..Len(posts) |-> posts[k].id],
     opinion_distribution |-> opinion_distribution(population),
     conversions |-> conversions]

\* SimulationTracker.record_round
record_round(tr, round, posts, population, conversions) ==
    [conversion_events |-> ExtendConversions(tr.conversion_events, conversions),
     round_summaries   |->
         Append(tr.round_summaries, RoundSummary(round, posts, population, conversions))]

\* the end of run_round and the step of the loop of run_simulation
RecordRound ==
    /\ pc = "record"
    /\ tracker' = record_round(tracker, round_num, round_posts, agents,
                               round_conversions)
    /\ IF round_num < MaxRounds
       THEN /\ round_num' = round_num + 1
            /\ pc' = "select"
       ELSE /\ round_num' = round_num
            /\ pc' = "done"
    /\ speakers' = << >>
    /\ round_posts' = << >>
    /\ visible_posts' = << >>
    /\ round_conversions' = << >>
    /\ UNCHANGED <<sd, amplifier, agents, all_posts, llm_calls, last_call, ncalls>>

Next ==
    \/ SelectSpeakers
    \/ GeneratePost
    \/ SampleFeed
    \/ DistributeFeed
    \/ DecayEmotions
    \/ RecordRound

Spec == Init /\ [][Next]_vars

----------------------------------------------------------------------------
(* Properties of the round loop (Spec) *)

\* the conversion events known so far: recorded, or held by the running round
EventsSoFar == tracker.conversion_events \o round_conversions

RoundBoundary == pc \in {"select", "done"}

\* C2: no threshold crossing is missed: a neutral whose position history
\* crosses below -0.3 (above +0.3) has a to_contrarian (to_consensus) event,
\* in the tracker by the end of the round; so the neutrals classified
\* contrarian never outnumber the to_contrarian events.
C2_NoCrossingMissed ==
    /\ \A i \in NeutralIds :
          LET history == agents[i].opinion.position_history
          IN  /\ DownCrossings(history) # {} =>
                    EventsOf(EventsSoFar, agents[i].id, "to_contrarian") # {}
              /\ UpCrossings(history) # {} =>
                    EventsOf(EventsSoFar, agents[i].id, "to_consensus") # {}
              /\ (RoundBoundary /\ DownCrossings(history) # {}) =>
                    EventsOf(tracker.conversion_events, agents[i].id,
                             "to_contrarian") # {}
              /\ (RoundBoundary /\ UpCrossings(history) # {}) =>
                    EventsOf(tracker.conversion_events, agents[i].id,
                             "to_consensus") # {}
    /\ Cardinality({i \in NeutralIds : classify(agents[i].opinion) = "contrarian"})
          <= Cardinality({k \in 1..Len(EventsSoFar) :
                             EventsSoFar[k].direction = "to_contrarian"})

\* C2 witness: a round has ended, a neutral crossed below -0.3 in it and is
\* classified contrarian
C2_Witness ==
    /\ RoundBoundary
    /\ \E i \in NeutralIds :
          /\ DownCrossings(agents[i].opinion.position_history) # {}
          /\ classify(agents[i].opinion) = "contrarian"
          /\ EventsOf(tracker.conversion_events, agents[i].id, "to_contrarian") # {}

\* the orders in which the agent loop could iterate the agents
IterationOrders ==
    {order \in [1..Len(agents) -> 1..Len(agents)] :
        \A i, j \in 1..Len(agents) : i # j => order[i] # order[j]}

\* the conversion events of a round, without their order
EventSet(events) == {events[k] : k \in 1..Len(events)}

\* C9: the per-agent update step is order-independent: for the visible posts
\* and backlash draws of a round, every iteration order of the agents gives
\* every agent the same opinion, emotional state and trust scores and gives
\* the round the same conversion events, trigger post included.
C9_OrderIndependent ==
    pc = "distribute" =>
        \A draws \in BacklashDraws : \A order \in IterationOrders :
            LET start   == LoopState(agents, NoPost, << >>)
                listed  == Distribute(start, visible_posts, ListOrder, 1,
                                      round_num, draws)
                ordered == Distribute(start, visible_posts, order, 1,
                                      round_num, draws)
            IN  /\ ordered.agents = listed.agents
                /\ EventSet(ordered.round_conversions)
                      = EventSet(listed.round_conversions)

\* posts generated so far: those in the post list and, until they are
\* appended to it, those of the running round
PostsSoFar ==
    IF pc \in {"generate", "sample"} THEN all_posts \o round_posts ELSE all_posts

\* the generation loop of the running round is over
GenerationOver == pc \in {"sample", "distribute", "decay", "record"}

\* the rounds that have run to their end
RoundsCompleted == IF pc = "done" THEN round_num ELSE round_num - 1

\* whether the summary of a round lists the post
InSummary(summary, post) ==
    \E m \in 1..Len(summary.posts) : summary.posts[m] = post.id

OnePostPerSpeaker ==
    GenerationOver =>
        /\ Len(round_posts) = Len(speakers)
        /\ \A k \in 1..Len(speakers) :
              /\ round_posts[k].author_id = speakers[k]
              /\ round_posts[k].round_num = round_num
              /\ round_posts[k].content
                    \in {ErrorMarker, GeneratedText(agents[speakers[k]])}

EveryRoundRecorded ==
    /\ Len(tracker.round_summaries) = RoundsCompleted
    /\ \A k \in 1..Len(all_posts) :
          all_posts[k].round_num <= RoundsCompleted =>
              InSummary(tracker.round_summaries[all_posts[k].round_num], all_posts[k])

----------------------------------------------------------------------------
(* sd_parameters.py, sd_equations.py, sd_model.py: the aggregate            *)
(* (system-dynamics) model.  Stocks and rates are in the same fixed point.  *)
(* scipy's odeint is modelled as explicit steps state + h * derivatives     *)
(* with h drawn from a small set.                                           *)

\* SDParameters() defaults
DEFAULT_PARAMS ==
    [initial_neutrals |-> 20000, fixed_contrarians |-> 1000, fixed_consensus |-> 4000,
     initial_arousal |-> 470, initial_frame_adoption |-> 0,
     contrarian_emotion |-> 580, contrarian_provocativeness |-> 540,
     contrarian_engagement_boost |-> 1300,
     consensus_emotion |-> 40, consensus_provocativeness |-> 30,
     consensus_engagement_boost |-> 1000,
     emotion_weight |-> 400, provocative_weight |-> 400,
     base_conversion_rate |-> 15, arousal_amplifier |-> 2500,
     base_susceptibility |-> 300,
     threshold_arousal |-> 930, threshold_multiplier |-> 4000,
     threshold_smoothing |-> 50,
     arousal_contagion_rate |-> 180, arousal_decay_rate |-> 12, max_arousal |-> 1000,
     frame_adoption_rate |-> 60, frame_decay_rate |-> 8,
     secondary_propagation |-> 400]

\* np.clip
Clip(x, lo, hi) == Max(lo, Min(hi, x))

\* base_score * engagement_boost ** engagement_exponent (exponent 2.0)
visibility_contrarian(params) ==
    Mul(Mul(params.emotion_weight, params.contrarian_emotion)
        + Mul(params.provocative_weight, params.contrarian_provocativeness),
        Mul(params.contrarian_engagement_boost, params.contrarian_engagement_boost))

visibility_consensus(params) ==
    Mul(Mul(params.emotion_weight, params.consensus_emotion)
        + Mul(params.provocative_weight, params.consensus_provocativeness),
        Mul(params.consensus_engagement_boost, params.consensus_engagement_boost))

\* the two exposure fractions from the weighted visibilities
ExposureShares(weighted_c, weighted_s) ==
    IF weighted_c + weighted_s <= 0
    THEN [c |-> 500, s |-> 500]
    ELSE [c |-> Quot(weighted_c, weighted_c + weighted_s),
          s |-> Quot(weighted_s, weighted_c + weighted_s)]

exposure_fractions(converted_C, converted_S, frame_adoption, params) ==
    LET vis_c == visibility_contrarian(params)
        vis_s == visibility_consensus(params)
        pop_c == params.fixed_contrarians + converted_C
        pop_c_effective ==
            Mul(pop_c, 1000 + Mul(params.secondary_propagation, frame_adoption))
        pop_s == params.fixed_consensus + converted_S
    IN  ExposureShares(Mul(vis_c, pop_c_effective), Mul(vis_s, pop_s))

\* 1 / (1 + exp(-z)) with z clipped to [-50, 50]; for z < 0 the same value
\* written exp(z) / (1 + exp(z))
Logistic(nonnegative, e) ==
    IF nonnegative THEN Quot(1000, 1000 + e) ELSE Quot(e, 1000 + e)

smooth_threshold(x, threshold, smoothing) ==
    LET z == Clip(Quot(x - threshold, smoothing), -50000, 50000)
    IN  Logistic(z >= 0, ExpNeg(Abs(z)))

susceptibility(arousal, params) ==
    LET base == Mul(params.base_susceptibility,
                    1000 + Mul(params.arousal_amplifier, arousal))
        threshold_effect ==
            1000 + Mul(params.threshold_multiplier - 1000,
                       smooth_threshold(arousal, params.threshold_arousal,
                                        params.threshold_smoothing))
    IN  Mul(base, threshold_effect)

arousal_increase_rate(exposure_c, arousal, params) ==
    Mul(Mul(Mul(params.arousal_contagion_rate, exposure_c),
            params.contrarian_provocativeness),
        params.max_arousal - arousal)

arousal_decay_rate(arousal, params) == Mul(params.arousal_decay_rate, arousal)

conversion_rate_to_contrarian(neutrals, exposure_c, arousal, params) ==
    Mul(Mul(Mul(params.base_conversion_rate, susceptibility(arousal, params)),
            exposure_c), neutrals)

conversion_rate_to_consensus(neutrals, exposure_s, arousal, params) ==
    LET arousal_penalty == Quot(1000, 1000 + Mul(params.arousal_amplifier, arousal))
        sus == Mul(params.base_susceptibility, arousal_penalty)
    IN  Mul(Mul(Mul(params.base_conversion_rate, sus), exposure_s), neutrals)

frame_adoption_change(frame_adoption, exposure_c, params) ==
    LET effective_exposure ==
            Mul(exposure_c, 1000 + Mul(params.secondary_propagation, frame_adoption))
        adoption_rate ==
            Mul(Mul(params.frame_adoption_rate, effective_exposure),
                1000 - frame_adoption)
        decay_rate == Mul(params.frame_decay_rate, frame_adoption)
    IN  adoption_rate - decay_rate

\* the state vector [N, C, S, A, F]
SDVector(N, C, S, A, F) == [N |-> N, C |-> C, S |-> S, A |-> A, F |-> F]

\* the stocks as derivatives clamps them before use
ClampedStocks(state, params) ==
    SDVector(Max(0, state.N), Max(0, state.C), Max(0, state.S),
             Clip(state.A, 0, params.max_arousal), Clip(state.F, 0, 1000))

\* the conversion flows before the rescaling
RawFlowsAt(st, exp, params) ==
    [c |-> conversion_rate_to_contrarian(st.N, exp.c, st.A, params),
     s |-> conversion_rate_to_consensus(st.N, exp.s, st.A, params)]

RawFlows(state, params) ==
    LET st == ClampedStocks(state, params)
    IN  RawFlowsAt(st, exposure_fractions(st.C, st.S, st.F, params), params)

\* a test that never finds the flows above the neutrals
RescalesNever(N, raw) == FALSE

\* "Ensure conversions don't exceed available neutrals"
RescalesAt(N, raw) == raw.c + raw.s > N /\ N > 0

Rescales(state, params) ==
    RescalesAt(ClampedStocks(state, params).N, RawFlows(state, params))

\* the flows scaled by N / total_conversion when they exceed the neutrals
ScaledFlows(N, raw) ==
    IF RescalesAt(N, raw)
    THEN [c |-> Mul(raw.c, Quot(N, raw.c + raw.s)),
          s |-> Mul(raw.s, Quot(N, raw.c + raw.s))]
    ELSE raw

ConversionFlows(state, params) ==
    ScaledFlows(ClampedStocks(state, params).N, RawFlows(state, params))

\* an outflow that forgets the conversions to consensus
NeutralOutflowOneSided(conv_to_c, conv_to_s) == -conv_to_c

\* dN_dt = -conv_to_c - conv_to_s
NeutralOutflow(conv_to_c, conv_to_s) == -conv_to_c - conv_to_s

\* OpinionDynamicsSD.derivatives: [dN/dt, dC/dt, dS/dt, dA/dt, dF/dt]
DerivativesAt(st, exp, conv, params) ==
    SDVector(NeutralOutflow(conv.c, conv.s), conv.c, conv.s,
             arousal_increase_rate(exp.c, st.A, params)
                 - arousal_decay_rate(st.A, params),
             frame_adoption_change(st.F, exp.c, params))

derivatives(state, params) ==
    LET st == ClampedStocks(state, params)
    IN  DerivativesAt(st, exposure_fractions(st.C, st.S, st.F, params),
                      ConversionFlows(state, params), params)

\* OpinionDynamicsSD.initial_state
initial_state(params) ==
    SDVector(params.initial_neutrals, 0, 0, params.initial_arousal,
             params.initial_frame_adoption)

----------------------------------------------------------------------------
(* OpinionDynamicsSD.run from a drawn parameter set and start vector *)

MaxSteps == 4

\* parameter sets: the defaults, and a conversion rate large enough for the
\* flows to exceed the neutral pool
SDParameterSets ==
    { DEFAULT_PARAMS, [DEFAULT_PARAMS EXCEPT !.base_conversion_rate = 2000] }

\* start vectors: initial_state(), and vectors on and beyond the clamps
SDStartStates(params) ==
    { initial_state(params),
      SDVector(20000, 0, 0, 990, 0),
      SDVector(500, 15000, 4500, 950, 600),
      SDVector(0, 12000, 8000, 1200, 1500),
      SDVector(-300, 12200, 8100, -50, -100),
      SDVector(3000, -200, 17200, 470, 300),
      SDVector(10000, 2000, 0, 470, 0) }

\* integration step sizes (time units)
StepSizes == {100, 1000}

\* one explicit integration step of size h
StepBy(state, h, d) ==
    SDVector(state.N + Mul(h, d.N), state.C + Mul(h, d.C),
             state.S + Mul(h, d.S), state.A + Mul(h, d.A),
             state.F + Mul(h, d.F))

IntegrationStep(state, params, h) == StepBy(state, h, derivatives(state, params))

InitSD ==
    /\ agents = << >>
    /\ all_posts = << >>
    /\ tracker = NewTracker
    /\ round_num = 0
    /\ pc = "harness"
    /\ speakers = << >>
    /\ round_posts = << >>
    /\ visible_posts = << >>
    /\ round_conversions = << >>
    /\ llm_calls = 0
    /\ last_call = << >>
    /\ ncalls = 0
    /\ \E params \in SDParameterSets : \E start \in SDStartStates(params) :
          sd = [params |-> params, initial |-> start, state |-> start, steps |-> 0,
                results |-> <<start>>]
    /\ amplifier = DefaultAmplifier

Integrate ==
    /\ pc = "harness"
    /\ last_call = << >>
    /\ sd.steps < MaxSteps
    /\ \E h \in StepSizes :
          sd' = [sd EXCEPT !.state = IntegrationStep(sd.state, sd.params, h),
                           !.steps = @ + 1,
                           !.results = Append(@, IntegrationStep(sd.state, sd.params, h))]
    /\ UNCHANGED <<amplifier, agents, all_posts, tracker, round_num, pc, speakers, round_posts,
                   visible_posts, round_conversions, llm_calls, last_call, ncalls>>

\* max(tolerances) with tolerances[i] = abs(N + C + S - initial_total)
RECURSIVE MaxError(_, _)
MaxError(results, initial_total) ==
    IF results = << >> THEN 0
    ELSE Max(Abs(Head(results).N + Head(results).C + Head(results).S - initial_total),
             MaxError(Tail(results), initial_total))

\* OpinionDynamicsSD.validate_conservation
validate_conservation(results, params) ==
    MaxError(results, params.initial_neutrals) < 10

\* validate_conservation() called on the finished run
ValidateCall ==
    /\ pc = "harness"
    /\ last_call = << >>
    /\ last_call' = [op |-> "validate_conservation",
                     result |-> validate_conservation(sd.results, sd.params)]
    /\ UNCHANGED <<sd, amplifier, agents, all_posts, tracker, round_num, pc, speakers,
                   round_posts, visible_posts, round_conversions, llm_calls, ncalls>>

NextSD == Integrate \/ ValidateCall

SpecSD == InitSD /\ [][NextSD]_vars

----------------------------------------------------------------------------
(* Properties of the aggregate model (SpecSD) *)

Population(state) == state.N + state.C + state.S

\* C11: the aggregate model conserves population: at every state vector,
\* clamped or rescaled ones included, the derivatives of N, C and S sum to
\* zero; and a run from N=20, C=0, S=0 keeps N+C+S within 1% of 20.
C11_PopulationConserved ==
    LET d == derivatives(sd.state, sd.params)
    IN  /\ d.N + d.C + d.S = 0
        /\ sd.initial = initial_state(sd.params) =>
              Abs(Population(sd.state) - 20000) <= 200

\* C11 witness: a run from the initial state whose first derivative
\* evaluation rescaled the flows and which has moved neutrals to C and S
C11_Witness ==
    /\ sd.steps >= 2
    /\ sd.initial = initial_state(sd.params)
    /\ Rescales(sd.initial, sd.params)
    /\ sd.state.C > 0
    /\ sd.state.S > 0
    /\ sd.state.N < 20000

----------------------------------------------------------------------------
(* Properties of the feed ranking in the round loop (Spec) *)

\* the scores compute_visibility can give a post in a round
VisibilityScores(post, round) ==
    {compute_visibility(post, round, noise) : noise \in Noises}

\* C12: visibility_score is recomputed every round: when the agents read the
\* feed of round r, every post of the post list carries a score computed by
\* compute_visibility(post, r), not the 0.0 of its creation nor the score of
\* an earlier round.
C12_VisibilityRecomputed ==
    pc = "distribute" =>
        \A k \in 1..Len(all_posts) :
            all_posts[k].visibility_score \in VisibilityScores(all_posts[k], round_num)

----------------------------------------------------------------------------
(* One post with drawn content scores, read by one neutral observer as in   *)
(* the inner loop of run_round, or scored as in rank_feed.                  *)

\* content scores in [0, 1]
ScoreGrid == {0, 300, 550, 700, 1000}

IntensityGrid == {0, 500, 1000}

CoherenceGrid == {400, 1000}

\* configured weights with emotion_weight, provocative_weight > 0 and
\* recency_weight >= 0
PositiveAmplifiers ==
    {DefaultAmplifier, AmplificationAlgorithm(100, 1000, 0),
     AmplificationAlgorithm(1000, 100, 2000)}

\* a post with the given scores, written in round 1 by the contrarian
ScoredPost(ei, prov, lc, co) ==
    NewPost(1, 1, 1, "scored_text", ei, prov, lc, co, NewContrarian(1))

\* the stance class process_post_for_reader infers
EngineStanceClass(post) ==
    IF EngineStance(post) < 0 THEN "contrarian"
    ELSE IF EngineStance(post) > 0 THEN "consensus"
    ELSE "neutral"

\* the stance class compute_opinion_influence infers
InfluenceStanceClass(post) ==
    IF post.provocativeness > 500 /\ post.provocativeness > post.consensus_orientation
    THEN "contrarian"
    ELSE IF post.consensus_orientation > 500 THEN "consensus"
    ELSE "neutral"

\* positions of the reading neutral: the initial ones and the upper end of
\* the range the position clamp allows
ReaderPositions == StartPositions \cup {1000}

InitPost ==
    /\ \E start_pos \in ReaderPositions :
          agents = <<NewContrarian(1), NewNeutral(2, "balanced", start_pos, 200)>>
    /\ \E ei \in IntensityGrid, prov \in ScoreGrid, lc \in CoherenceGrid,
          co \in ScoreGrid :
          all_posts = <<ScoredPost(ei, prov, lc, co)>>
    /\ tracker = NewTracker
    /\ round_num = 1
    /\ pc = "harness"
    /\ speakers = << >>
    /\ round_posts = << >>
    /\ visible_posts = << >>
    /\ round_conversions = << >>
    /\ llm_calls = 0
    /\ last_call = << >>
    /\ ncalls = 0
    /\ sd = << >>
    /\ amplifier \in PositiveAmplifiers

\* the neutral observer reads the post
ReadCall ==
    /\ pc = "harness"
    /\ ncalls = 0
    /\ \E draw \in Draws :
          LET post == all_posts[1]
              st   == ReadPost(LoopState(agents, NoPost, << >>), 2, post, round_num,
                               [i \in {2} |-> draw])
          IN  /\ agents' = st.agents
              /\ round_conversions' = st.round_conversions
              /\ last_call' =
                    [op |-> "read", reader |-> agents[2],
                     alignment |-> opinion_alignment(post, agents[2]),
                     impact |-> process_post_for_reader(post, agents[2]),
                     engine_stance |-> EngineStanceClass(post),
                     influence_stance |-> InfluenceStanceClass(post)]
    /\ ncalls' = ncalls + 1
    /\ UNCHANGED <<sd, amplifier, all_posts, tracker, round_num, pc, speakers, round_posts,
                   visible_posts, llm_calls>>

\* rank_feed scores the post in some round
ScoreCall ==
    /\ pc = "harness"
    /\ ncalls = 0
    /\ \E current_round \in SampleRounds, noise \in Noises :
          /\ all_posts' = rank_feed(all_posts, current_round, [i \in {1} |-> noise])
          /\ round_num' = current_round
          /\ last_call' = [op |-> "score", noise |-> noise]
    /\ ncalls' = ncalls + 1
    /\ UNCHANGED <<sd, amplifier, agents, tracker, pc, speakers, round_posts, visible_posts,
                   round_conversions, llm_calls>>

NextPost == ReadCall \/ ScoreCall

SpecPost == InitPost /\ [][NextPost]_vars

\* C13: the emotional engine and compute_opinion_influence infer the same
\* stance class (contrarian-leaning, consensus-leaning, neutral) for every
\* post, whatever its provocativeness and consensus_orientation.
C13_SameStance ==
    (pc = "harness" /\ ncalls > 0 /\ last_call.op = "read") =>
        last_call.engine_stance = last_call.influence_stance

----------------------------------------------------------------------------
(* The cognitive-investment ratchet of Opinion.update (SpecOpinion) *)

UpdateRecorded == pc = "harness" /\ ncalls > 0 /\ last_call # << >> /\ last_call.op = "update"

\* the influence opposes the stored investment direction
IsReversal(before, influence) ==
    Sign(influence) # 0 /\ Sign(before.investment_direction) # 0
    /\ Sign(influence) # Sign(before.investment_direction)

\* same sign as the stored direction, or no stored direction
IsReinforcement(before, influence) ==
    Sign(before.investment_direction) = 0
    \/ Sign(influence) = Sign(before.investment_direction)

\* C14: on a reversal the effective influence is the influence scaled down
\* (never larger in magnitude, never of the other sign), the investment does
\* not increase and the direction is unchanged; on a reinforcement or a first
\* movement the influence is applied unscaled, the investment does not
\* decrease and the direction moves 80/20 toward the sign of the influence.
C14_InvestmentRatchet ==
    UpdateRecorded =>
        LET before    == last_call.before
            after     == agents[1].opinion
            influence == last_call.influence
            effective == last_call.investment.effective_influence
            traits    == agents[1].personality_traits
        IN  /\ IsReversal(before, influence) =>
                  /\ effective =
                         Mul(influence,
                             ExpNeg(Mul(before.cognitive_investment * 2,
                                        traits.reversal_resistance)))
                  /\ Abs(effective) <= Abs(influence)
                  /\ Sign(effective) \in {0, Sign(influence)}
                  /\ after.cognitive_investment <= before.cognitive_investment
                  /\ after.investment_direction = before.investment_direction
            /\ IsReinforcement(before, influence) =>
                  /\ effective = influence
                  /\ after.cognitive_investment >= before.cognitive_investment
                  /\ after.investment_direction =
                         Mul(before.investment_direction, 800) + Sign(influence) * 200
                  /\ Sign(influence) # 0 =>
                         Abs(Sign(influence) * 1000 - after.investment_direction)
                             < Abs(Sign(influence) * 1000 - before.investment_direction)

\* a reversal against a built-up investment: the influence is damped and the
\* investment erodes
C14_Witness ==
    /\ UpdateRecorded
    /\ IsReversal(last_call.before, last_call.influence)
    /\ Abs(last_call.investment.effective_influence) < Abs(last_call.influence)
    /\ agents[1].opinion.cognitive_investment < last_call.before.cognitive_investment

\* C15: after any sequence of Opinion.update calls with influence in [-2, 2]
\* and source_trust in [0.1, 1], for every archetype, cognitive_investment is
\* in [0, 2] and investment_direction is in [-1, 1].
C15_InvestmentBounded ==
    \A i \in 1..Len(agents) :
        /\ agents[i].opinion.cognitive_investment >= 0
        /\ agents[i].opinion.cognitive_investment <= 2000
        /\ agents[i].opinion.investment_direction >= -1000
        /\ agents[i].opinion.investment_direction <= 1000

\* the cap of the investment has acted and the direction has moved
C15_Witness ==
    /\ UpdateRecorded
    /\ agents[1].opinion.cognitive_investment = 2000
    /\ last_call.before.cognitive_investment + 1600 > 2000
    /\ last_call.before.cognitive_investment < 2000
    /\ agents[1].opinion.investment_direction # 0

----------------------------------------------------------------------------
(* Trust writes of apply_impact (SpecEmotion) *)

\* the trust entries of an agent other than the one for other_id are unchanged
OtherEntriesUnchanged(before, after, other_id) ==
    /\ DOMAIN after.trust_scores \ {other_id} = DOMAIN before.trust_scores \ {other_id}
    /\ \A k \in DOMAIN before.trust_scores \ {other_id} :
          after.trust_scores[k] = before.trust_scores[k]

\* C16: apply_impact for a reader and an author id changes no trust entry of
\* the reader other than the author's and no trust entry of any other agent;
\* the entry written is the clamp of the old value (0.5 when absent) plus the
\* delta, and every stored value lies in [0.1, 1.0].
C16_TrustWrites ==
    [][ (pc = "harness" /\ ncalls' = ncalls + 1 /\ last_call'.op = "apply_impact") =>
            LET reader    == last_call'.reader
                author_id == last_call'.author_id
                delta     == last_call'.impact.trust_delta
                old       == IF author_id \in DOMAIN agents[reader].trust_scores
                             THEN agents[reader].trust_scores[author_id] ELSE 500
            IN  /\ \A i \in 1..Len(agents) \ {reader} :
                      agents'[i].trust_scores = agents[i].trust_scores
                /\ OtherEntriesUnchanged(agents[reader], agents'[reader], author_id)
                /\ IF delta # 0
                   THEN /\ author_id \in DOMAIN agents'[reader].trust_scores
                        /\ agents'[reader].trust_scores[author_id]
                              = Max(100, Min(1000, old + delta))
                   ELSE agents'[reader].trust_scores = agents[reader].trust_scores
                /\ \A i \in 1..Len(agents) : \A k \in DOMAIN agents'[i].trust_scores :
                      /\ agents'[i].trust_scores[k] >= 100
                      /\ agents'[i].trust_scores[k] <= 1000 ]_vars

\* the reader's trust in author 3 was driven to the lower bound by a write that
\* would have gone below it, while the entry for author 2, first written from
\* the default 0.5, kept its value
C16_Witness ==
    /\ pc = "harness"
    /\ ncalls = MaxCalls
    /\ last_call.op = "apply_impact"
    /\ last_call.reader = 1
    /\ last_call.author_id = 3
    /\ last_call.impact.trust_delta = -150
    /\ DOMAIN agents[1].trust_scores = {2, 3}
    /\ agents[1].trust_scores[3] = 100
    /\ agents[1].trust_scores[2] = 550
    /\ agents[2].trust_scores = << >>

----------------------------------------------------------------------------
(* Speaker selection and generation of one round, for several values of     *)
(* posts_per_round (SpecSpeakers).                                          *)

\* values of config.posts_per_round
SpeakerCounts == {1, 2, 3}

\* rounds in which the selection runs: one ordinary, one with round % 3 = 0
SelectionRounds == {1, 3}

InitSpeakers ==
    /\ \E personalities \in NeutralConfigs :
          agents = initialize_population(personalities, <<-200, 200>>)
    /\ all_posts = << >>
    /\ tracker = NewTracker
    /\ round_num \in SelectionRounds
    /\ pc = "select"
    /\ speakers = << >>
    /\ round_posts = << >>
    /\ visible_posts = << >>
    /\ round_conversions = << >>
    /\ llm_calls = 0
    /\ last_call = << >>
    /\ ncalls = 0
    /\ sd = << >>
    /\ amplifier = DefaultAmplifier

\* select_speakers with posts_per_round = num_speakers
SelectSpeakersOf ==
    /\ pc = "select"
    /\ \E num_speakers \in SpeakerCounts :
          \E chosen \in [1..num_speakers -> Candidates] :
             /\ speakers' = select_speakers(chosen, round_num)
             /\ last_call' = [op |-> "select_speakers", num_speakers |-> num_speakers,
                              chosen |-> chosen]
    /\ round_posts' = << >>
    /\ pc' = "generate"
    /\ UNCHANGED <<sd, amplifier, agents, all_posts, tracker, round_num, visible_posts,
                   round_conversions, llm_calls, ncalls>>

NextSpeakers == SelectSpeakersOf \/ GeneratePost \/ SampleFeed

SpecSpeakers == InitSpeakers /\ [][NextSpeakers]_vars

\* C17: a round selects K = posts_per_round speakers and generates one post
\* per speaker, so it appends exactly K posts to the post log.
C17_ExactlyKPosts ==
    /\ (pc = "generate" /\ last_call # << >>) => Len(speakers) = last_call.num_speakers
    /\ (pc = "distribute" /\ last_call # << >>) => Len(all_posts) = last_call.num_speakers

----------------------------------------------------------------------------
(* sample_visible_posts step by step: one action per iteration of the       *)
(* selection loop (SpecSelect).  round_posts holds `remaining', visible_posts *)
(* holds `selected', ncalls counts the iterations performed.                *)

\* a loop counter that does not advance
NextIterationStuck(count) == count

\* for _ in range(...): the next iteration
NextIteration(count) == count + 1

InitSelect ==
    /\ agents = << >>
    /\ \E n \in 0..MaxPosts : \E texts \in [1..n -> PostTexts] :
          all_posts = [i \in 1..n |-> SamplePost(i, texts[i])]
    /\ tracker = NewTracker
    /\ round_num = 0
    /\ pc = "call"
    /\ speakers = << >>
    /\ round_posts = << >>
    /\ visible_posts = << >>
    /\ round_conversions = << >>
    /\ llm_calls = 0
    /\ last_call = << >>
    /\ ncalls = 0
    /\ sd = << >>
    /\ amplifier \in SampleAmplifiers

\* the call up to the loop: the two early returns, rank_feed and the weights
EnterSample ==
    /\ pc = "call"
    /\ \E sample_size \in 0..MaxSample, current_round \in SampleRounds :
          /\ last_call' = [op |-> "sample_visible_posts", sample_size |-> sample_size,
                           current_round |-> current_round, posts |-> all_posts,
                           iterations |-> Min(sample_size, Len(all_posts))]
          /\ round_num' = current_round
          /\ IF all_posts = << >>
             THEN /\ visible_posts' = << >>
                  /\ pc' = "return"
                  /\ UNCHANGED <<all_posts, round_posts>>
             ELSE IF Len(all_posts) <= sample_size
             THEN /\ visible_posts' = all_posts
                  /\ pc' = "return"
                  /\ UNCHANGED <<all_posts, round_posts>>
             ELSE \E noise \in [1..Len(all_posts) -> Noises] :
                     /\ all_posts' = ScorePosts(all_posts, current_round, noise)
                     /\ round_posts' = rank_feed(all_posts, current_round, noise)
                     /\ visible_posts' = << >>
                     /\ pc' = IF Min(sample_size, Len(all_posts)) = 0
                              THEN "return" ELSE "loop"
    /\ UNCHANGED <<sd, amplifier, agents, tracker, speakers, round_conversions,
                   llm_calls, ncalls>>

\* one iteration of the selection loop
SelectIteration ==
    /\ pc = "loop"
    /\ ncalls < last_call.iterations
    /\ IF SumWeights(round_posts) <= 0
       THEN /\ pc' = "return"
            /\ UNCHANGED <<round_posts, visible_posts, ncalls>>
       ELSE /\ \E r \in SampleDraws(round_posts) :
                  LET i == PickIndex(round_posts, r, 1, 0)
                  IN  IF i = 0
                      THEN UNCHANGED <<round_posts, visible_posts>>
                      ELSE /\ visible_posts' = Append(visible_posts, round_posts[i])
                           /\ round_posts' = RemoveAt(round_posts, i)
            /\ ncalls' = NextIteration(ncalls)
            /\ pc' = IF NextIteration(ncalls) >= last_call.iterations
                     THEN "return" ELSE "loop"
    /\ UNCHANGED <<sd, amplifier, agents, all_posts, tracker, round_num, speakers,
                   round_conversions, llm_calls, last_call>>

NextSelect == EnterSample \/ SelectIteration

SpecSelect == InitSelect /\ [][NextSelect]_vars

\* the loop ran: more posts than the sample size
LoopEntered == last_call # << >> /\ Len(last_call.posts) > last_call.sample_size

\* iterations of the selection loop still to run
IterationsLeft == last_call.iterations - ncalls

\* C18: sample_visible_posts terminates for every input, also when the
\* remaining sampling weights are zero or negative: while the loop runs an
\* iteration can always be taken, every iteration either returns or lowers
\* the number of iterations left, which starts at min(sample_size,
\* len(posts)) and never goes below zero; at most one post is selected per
\* iteration, and the call returns with fewer posts only when the remaining
\* total weight is <= 0.
C18_SamplingTerminates ==
    /\ [](pc = "loop" =>
             /\ IterationsLeft > 0
             /\ SumWeights(round_posts) > 0 => SampleDraws(round_posts) # {})
    /\ [][pc = "loop" =>
             \/ pc' = "return"
             \/ pc' = "loop" /\ ncalls' > ncalls
                /\ last_call'.iterations = last_call.iterations]_vars
    /\ [](LoopEntered =>
             /\ IterationsLeft >= 0
             /\ ncalls <= Min(last_call.sample_size, Len(last_call.posts))
             /\ Len(visible_posts) <= ncalls
             /\ (pc = "return" /\ Len(visible_posts) < last_call.iterations) =>
                    SumWeights(round_posts) <= 0)

\* the loop stopped early: one post selected of the two asked for, the
\* two remaining posts with a weight sum below zero
C18_Witness ==
    /\ pc = "return"
    /\ LoopEntered
    /\ last_call.sample_size = 2
    /\ Len(visible_posts) = 1
    /\ Len(round_posts) = 2
    /\ SumWeights(round_posts) < 0
    /\ ncalls = 1

----------------------------------------------------------------------------
(* Monotonicity of the amplification formula (SpecPost) *)

ScoreRecorded == pc = "harness" /\ ncalls > 0 /\ last_call.op = "score"

\* C19: with content scores in [0, 1], emotion_weight, provocative_weight > 0
\* and recency_weight >= 0, compute_visibility returns a value >= 0, and for
\* the same noise factor, round and other scores a post of higher
\* emotional_intensity, or of higher provocativeness, gets a strictly higher
\* value.
C19_VisibilityMonotone ==
    ScoreRecorded =>
        LET post  == all_posts[1]
            noise == last_call.noise
        IN  /\ post.visibility_score = compute_visibility(post, round_num, noise)
            /\ post.visibility_score >= 0
            /\ \A ei \in IntensityGrid :
                  ei > post.emotional_intensity =>
                      compute_visibility([post EXCEPT !.emotional_intensity = ei],
                                         round_num, noise) > post.visibility_score
            /\ \A prov \in ScoreGrid :
                  prov > post.provocativeness =>
                      compute_visibility([post EXCEPT !.provocativeness = prov],
                                         round_num, noise) > post.visibility_score

\* an older post of middling scores, scored above 1.0 under a non-default
\* configuration, with higher scores left to compare against
C19_Witness ==
    /\ ScoreRecorded
    /\ amplifier # DefaultAmplifier
    /\ round_num = 3
    /\ all_posts[1].emotional_intensity = 500
    /\ all_posts[1].provocativeness = 550
    /\ all_posts[1].visibility_score > 1000

----------------------------------------------------------------------------
(* Saturation of the smooth threshold in susceptibility (SpecSD) *)

\* the arousal derivatives passes to susceptibility
ClampedArousal == Clip(sd.state.A, 0, sd.params.max_arousal)

\* base_susceptibility * (1 + arousal_amplifier * arousal)
BaseSusceptibility(arousal, params) ==
    Mul(params.base_susceptibility, 1000 + Mul(params.arousal_amplifier, arousal))

\* x within five percent of y
CloseTo(x, y) == Abs(x - y) * 100 <= 5 * Abs(y)

\* C20: with threshold_arousal = 0.93, threshold_multiplier = 4.0 and the
\* default smoothing, susceptibility at an arousal of 0.99 or more is close
\* to base * (1 + amplifier * arousal) * 4.0, and at an arousal of 0.5 or
\* less close to base * (1 + amplifier * arousal).
C20_ThresholdSaturates ==
    LET arousal == ClampedArousal
        params  == sd.params
    IN  /\ arousal >= 990 =>
              CloseTo(susceptibility(arousal, params),
                      Mul(BaseSusceptibility(arousal, params),
                          params.threshold_multiplier))
        /\ arousal <= 500 =>
              CloseTo(susceptibility(arousal, params),
                      BaseSusceptibility(arousal, params))

----------------------------------------------------------------------------
(* validate_conservation (SpecSD) *)

\* C21: validate_conservation returns True exactly when the largest deviation
\* of N+C+S from its value in the run's initial state, over all output times,
\* is below 1% of that initial population.
C21_ValidateWithinOnePercent ==
    (last_call # << >> /\ last_call.op = "validate_conservation") =>
        (last_call.result <=>
            MaxError(sd.results, Population(sd.initial)) * 100 < Population(sd.initial))

----------------------------------------------------------------------------
(* analyze_amplification_bias on a ranked post set (SpecBias): one           *)
(* contrarian-class post (provocativeness 0.8) and one consensus-class post  *)
(* (provocativeness 0.1, consensus_orientation 0.8), the other scores drawn. *)

\* float('inf')
Infinity == 1000000000

RECURSIVE SumVisibility(_)
SumVisibility(post_list) ==
    IF post_list = << >> THEN 0
    ELSE Head(post_list).visibility_score + SumVisibility(Tail(post_list))

\* avg_visibility
avg_visibility(post_list) ==
    IF post_list = << >> THEN 0
    ELSE TDiv(SumVisibility(post_list), Len(post_list))

IsContrarianPost(p) == p.provocativeness > 500

IsConsensusPost(p) == p.consensus_orientation > 500

IsNeutralPost(p) == p.provocativeness <= 500 /\ p.consensus_orientation <= 500

\* the bias ratio from the two averages
BiasRatio(contrarian_avg, consensus_avg) ==
    IF consensus_avg > 0 THEN Quot(contrarian_avg, consensus_avg)
    ELSE IF contrarian_avg > 0 THEN Infinity ELSE 1000

Interpretation(bias_ratio) ==
    IF bias_ratio > 1500 THEN "Strong contrarian amplification"
    ELSE IF bias_ratio > 1200 THEN "Moderate contrarian amplification"
    ELSE IF 800 <= bias_ratio /\ bias_ratio <= 1200 THEN "Roughly balanced"
    ELSE "Consensus content amplified more"

analyze_amplification_bias(posts) ==
    LET contrarian_avg == avg_visibility(SelectSeq(posts, IsContrarianPost))
        consensus_avg  == avg_visibility(SelectSeq(posts, IsConsensusPost))
    IN  [contrarian_posts_count |-> Len(SelectSeq(posts, IsContrarianPost)),
         consensus_posts_count |-> Len(SelectSeq(posts, IsConsensusPost)),
         neutral_posts_count |-> Len(SelectSeq(posts, IsNeutralPost)),
         contrarian_avg_visibility |-> contrarian_avg,
         consensus_avg_visibility |-> consensus_avg,
         neutral_avg_visibility |-> avg_visibility(SelectSeq(posts, IsNeutralPost)),
         bias_ratio |-> BiasRatio(contrarian_avg, consensus_avg),
         interpretation |-> Interpretation(BiasRatio(contrarian_avg, consensus_avg))]

InitBias ==
    /\ agents = << >>
    /\ \E ei \in [1..2 -> IntensityGrid], lc \in [1..2 -> CoherenceGrid] :
          all_posts =
             << NewPost(1, 1, 1, "scored_text", ei[1], 800, lc[1], 100, NewContrarian(1)),
                NewPost(2, 2, 1, "scored_text", ei[2], 100, lc[2], 800,
                        NewConsensus(2, 700)) >>
    /\ tracker = NewTracker
    /\ round_num = 1
    /\ pc = "rank"
    /\ speakers = << >>
    /\ round_posts = << >>
    /\ visible_posts = << >>
    /\ round_conversions = << >>
    /\ llm_calls = 0
    /\ last_call = << >>
    /\ ncalls = 0
    /\ sd = << >>
    /\ amplifier = DefaultAmplifier

\* rank_feed assigns the visibility scores
RankCall ==
    /\ pc = "rank"
    /\ \E current_round \in SampleRounds, noise \in [1..Len(all_posts) -> Noises] :
          /\ all_posts' = rank_feed(all_posts, current_round, noise)
          /\ round_num' = current_round
    /\ pc' = "analyze"
    /\ UNCHANGED <<sd, amplifier, agents, tracker, speakers, round_posts, visible_posts,
                   round_conversions, llm_calls, last_call, ncalls>>

AnalyzeCall ==
    /\ pc = "analyze"
    /\ last_call' = [op |-> "analyze_amplification_bias",
                     result |-> analyze_amplification_bias(all_posts)]
    /\ pc' = "done"
    /\ UNCHANGED <<sd, amplifier, agents, all_posts, tracker, round_num, speakers,
                   round_posts, visible_posts, round_conversions, llm_calls, ncalls>>

NextBias == RankCall \/ AnalyzeCall

SpecBias == InitBias /\ [][NextBias]_vars

ContrarianAmplification ==
    {"Strong contrarian amplification", "Moderate contrarian amplification"}

\* C22: on a post set whose contrarian-class posts have provocativeness 0.8
\* and whose consensus-class posts have provocativeness 0.1 and
\* consensus_orientation 0.8, scored by rank_feed with the default weights,
\* analyze_amplification_bias reports bias_ratio > 1 and a contrarian
\* amplification; and whenever bias_ratio > 1 the interpretation names
\* contrarian amplification.
C22_ContrarianBiasReported ==
    pc = "done" =>
        /\ last_call.result.bias_ratio > 1000
        /\ last_call.result.interpretation \in ContrarianAmplification
        /\ last_call.result.bias_ratio > 1000 =>
               last_call.result.interpretation \in ContrarianAmplification

----------------------------------------------------------------------------
(* simulation.py: the trigger post of a conversion event *)

\* the events the agent loop returns for one agent
EventsAbout(events, agent_id) ==
    {events[k] : k \in {m \in 1..Len(events) : events[m].agent_id = agent_id}}

\* C23: the trigger post stored in a conversion event for an agent in a round
\* is absent or the most recent post that this agent itself read in the round
\* with an opinion step above 0.05: it is never authored by the agent, and
\* the event is the one a loop tracking the last influential post of this
\* agent alone would return.
C23_TriggerIsOwnRead ==
    pc = "distribute" =>
        \A draws \in BacklashDraws :
            LET start  == LoopState(agents, NoPost, << >>)
                listed == Distribute(start, visible_posts, ListOrder, 1,
                                     round_num, draws)
            IN  \A i \in 1..Len(agents) :
                    LET alone == ReadFeed(start, i, visible_posts, 1,
                                          round_num, draws)
                    IN  /\ \A e \in EventsAbout(listed.round_conversions, agents[i].id) :
                               e.trigger_post_author # agents[i].id
                        /\ EventsAbout(listed.round_conversions, agents[i].id)
                              = EventsAbout(alone.round_conversions, agents[i].id)

----------------------------------------------------------------------------
(* models.py: calculate_debate_temperature; the processing mode of the      *)
(* opinion update in the round loop                                         *)

RECURSIVE TotalHeat(_)
TotalHeat(posts) ==
    IF posts = << >> THEN 0
    ELSE TDiv(Head(posts).emotional_intensity + Head(posts).provocativeness, 2)
         + TotalHeat(Tail(posts))

calculate_debate_temperature(recent_posts, window) ==
    IF recent_posts = << >> THEN 500
    ELSE LET first == Max(1, Len(recent_posts) - window + 1)
             posts_to_analyze == SubSeq(recent_posts, first, Len(recent_posts))
         IN  TDiv(TotalHeat(posts_to_analyze), Len(posts_to_analyze))

\* C24: the opinion update of a neutral that reads a post in the round loop
\* uses a system2 capacity computed from the reader's current arousal and the
\* debate temperature of the recent posts: the reader's opinion after the
\* read is the one Opinion.update returns for these two live values.
C24_LiveProcessingMode ==
    (last_call # << >> /\ last_call.op = "read") =>
        LET post == all_posts[1]
            felt == apply_impact(last_call.reader, last_call.impact, post.author_id)
            inf  == compute_opinion_influence(post, felt.opinion.position)
        IN  \E draw \in Draws :
                agents[2].opinion =
                    OpinionUpdate(felt.opinion,
                                  Mul(inf.influence_direction, inf.influence_strength),
                                  get_trust(felt, post.author_id),
                                  post.emotional_intensity, inf.is_contrarian,
                                  post.logical_coherence, felt.personality_traits,
                                  calculate_debate_temperature(all_posts, 10),
                                  felt.emotional_state.arousal, draw).opinion

----------------------------------------------------------------------------
(* emotions.py: the opinion alignment of a reader and a post *)

\* the reader's position and the stance inferred for the post have opposite
\* signs
Disagrees(post, reader) == reader.opinion.position * EngineStance(post) < 0

\* C25: the opinion alignment passed to calculate_emotional_impact lies in
\* [-1,1] and is negative when the reader's position and the post's inferred
\* stance disagree, so a disagreeing reader of a post of provocativeness
\* above 0.5 has anger raised by provocativeness*|alignment|*0.5, valence
\* lowered by provocativeness*0.3 and, for provocativeness above 0.8, trust
\* in the author lowered by 0.15.
C25_DisagreementAngers ==
    (last_call # << >> /\ last_call.op = "read") =>
        LET post == all_posts[1]
            al   == last_call.alignment
        IN  /\ al \in -1000..1000
            /\ Disagrees(post, last_call.reader) => al < 0
            /\ (Disagrees(post, last_call.reader) /\ post.provocativeness > 500) =>
                  /\ last_call.impact.anger_delta
                        = Mul(Mul(post.provocativeness, Abs(al)), 500)
                  /\ last_call.impact.anger_delta > 0
                  /\ last_call.impact.valence_delta = -Mul(post.provocativeness, 300)
                  /\ post.provocativeness > 800 =>
                        last_call.impact.trust_delta = -150

----------------------------------------------------------------------------
(* models.py: the range of the processing mode *)

\* C26: for every arousal and debate temperature in [0,1] and the analytical
\* weight of every personality archetype, calculate_processing_mode returns
\* a value in [0.1,1], so system1_weight = 1 - system2_capacity lies in
\* [0,0.9] and the two channel weights split 1 with no negative part.
C26_CapacityInUnitRange ==
    UpdateRecorded =>
        /\ last_call.system2_capacity \in 100..1000
        /\ last_call.system1_weight \in 0..900
        /\ last_call.system2_capacity + last_call.system1_weight = 1000

----------------------------------------------------------------------------
(* sd_model.py: the conversion flows and the neutral pool *)

----------------------------------------------------------------------------
(* simulation.py: whose opinion a round changes *)

Advocates == {i \in 1..Len(agents) : agents[i].role # "neutral_observer"}

\* the posts of a feed an agent did not write
PostsByOthers(posts, agent) ==
    SelectSeq(posts, LAMBDA p : p.author_id # agent.id)

\* C28: only neutral observers' opinions change. Every step of the round
\* loop leaves the role of every agent and the opinion (position,
\* confidence, stability, cognitive investment, investment direction,
\* position history) of every contrarian provocateur and consensus advocate
\* unchanged, their history keeps length 1, no conversion event names such
\* an agent, and the feed changes an agent as the feed without the agent's
\* own posts does.
C28_OnlyNeutralsMove ==
    /\ [][\A i \in 1..Len(agents) :
             /\ agents'[i].role = agents[i].role
             /\ i \in Advocates => agents'[i].opinion = agents[i].opinion]_vars
    /\ [](\A i \in Advocates :
             /\ Len(agents[i].opinion.position_history) = 1
             /\ EventsAbout(EventsSoFar, agents[i].id) = {})
    /\ [](pc = "distribute" =>
             \A draws \in BacklashDraws : \A i \in 1..Len(agents) :
                 LET start == LoopState(agents, NoPost, << >>)
                 IN  ReadFeed(start, i, visible_posts, 1, round_num, draws)
                        = ReadFeed(start, i, PostsByOthers(visible_posts, agents[i]),
                                   1, round_num, draws))

\* C28 witness: the feed of a round held a post of an advocate and a post of
\* another agent; the advocate has read (its emotional state moved) with its
\* opinion as created, and a neutral has moved
C28_Witness ==
    /\ pc = "decay"
    /\ \E i \in Advocates :
          /\ \E k \in 1..Len(visible_posts) : visible_posts[k].author_id = agents[i].id
          /\ \E k \in 1..Len(visible_posts) : visible_posts[k].author_id # agents[i].id
          /\ agents[i].emotional_state.engagement > 850
          /\ Len(agents[i].opinion.position_history) = 1
    /\ \E j \in NeutralIds :
          /\ Len(agents[j].opinion.position_history) > 1
          /\ agents[j].opinion.position # agents[j].opinion.position_history[1]

----------------------------------------------------------------------------
(* simulation.py: the contrarian's guaranteed voice *)

FirstContrarian == CHOOSE c \in Contrarians : \A d \in Contrarians : c <= d

\* the posts of the running round written by the agent
RoundPostsBy(agent) ==
    {k \in 1..Len(round_posts) : round_posts[k].author_id = agent.id}

\* C29: with a contrarian in the population, in a round r with r mod 3 = 0
\* the first contrarian is among the speakers select_speakers returns,
\* whatever the draw, and has written exactly one post of the round once the
\* generation is over; no agent appears twice among the speakers of a round.
C29_ContrarianVoice ==
    /\ \A k, m \in 1..Len(speakers) : k # m => speakers[k] # speakers[m]
    /\ (Contrarians # {} /\ round_num % 3 = 0) =>
          /\ pc \in {"generate", "sample", "distribute"} =>
                \E k \in 1..Len(speakers) : speakers[k] = FirstContrarian
          /\ pc \in {"sample", "distribute"} =>
                Cardinality(RoundPostsBy(agents[FirstContrarian])) = 1

\* C29 witness: in round 3 the draw of three speakers held no contrarian and
\* a repeated agent; the contrarian took the first place and wrote its post
C29_Witness ==
    /\ pc = "distribute"
    /\ round_num = 3
    /\ last_call # << >>
    /\ last_call.num_speakers = 3
    /\ \A k \in 1..3 : last_call.chosen[k] # FirstContrarian
    /\ last_call.chosen[2] = last_call.chosen[3]
    /\ speakers[1] = FirstContrarian
    /\ Len(speakers) = 2
    /\ round_posts[1].author_id = agents[FirstContrarian].id

----------------------------------------------------------------------------
(* models.py: the direction of the cognitive investment *)

\* C30: the direction of cognitive investment is permanent: once
\* investment_direction is nonzero no Opinion.update changes its sign or
\* returns it to zero, also when cognitive_investment has been eroded to 0,
\* and every influence of the opposite sign is classified as a reversal.
C30_DirectionPermanent ==
    /\ [][\A i \in 1..Len(agents) :
             agents[i].opinion.investment_direction # 0 =>
                 Sign(agents'[i].opinion.investment_direction)
                     = Sign(agents[i].opinion.investment_direction)]_vars
    /\ [](UpdateRecorded =>
             ((/\ last_call.before.investment_direction # 0
               /\ Sign(last_call.influence)
                     = -Sign(last_call.before.investment_direction))
                 => last_call.investment.reversal))

\* C30 witness: an update met an opinion whose investment had been eroded to
\* 0 with a direction left, the influence opposed the direction, and the
\* update was a reversal that kept the direction
C30_Witness ==
    /\ UpdateRecorded
    /\ Len(last_call.before.position_history) >= 3
    /\ last_call.before.cognitive_investment = 0
    /\ last_call.before.investment_direction > 0
    /\ last_call.influence < 0
    /\ last_call.investment.reversal
    /\ agents[1].opinion.investment_direction = last_call.before.investment_direction

====
